---- MODULE Spec2Model ----
(***************************************************************************)
(* Blueprint schema/graph editor of PulseSync-UIKit, and the components    *)
(* around it: AddonSettingsAccordion, the canvas view of the graph,        *)
(* Pagination, ToastProvider, useConfirmModal / usePromptModal, Accordion  *)
(* and the form-style AddonSettingsBlueprintEditor.  Each component has    *)
(* its own specification; the variables of the others keep their idle      *)
(* values in it.                                                           *)
(*                                                                         *)
(* The schema <-> graph converters (blueprint-graph.ts) are operators; the *)
(* editing operations of BlueprintEditorProvider are actions on the graph  *)
(* the host holds (controlled-value pattern: every onChange is committed   *)
(* by the host and fed back as the graph prop).                            *)
(*                                                                         *)
(* Strings that the code builds or parses (node ids) are sequences of      *)
(* tokens: "section_3" is <<"section_", "3">>, "item_12" is                 *)
(* <<"item_", "1", "2">>, the empty string is <<>>.  Optional fields of a  *)
(* TypeScript object are fields that a record has or has not.              *)
(***************************************************************************)
EXTENDS Integers, Sequences, FiniteSets, TLC

VARIABLES schema, previousGraph, graph, clock, op, steps,
          internalValues, controlledValues,
          flowNodes, flowEdges, selfUpdate,
          toasts, timers, idCounter,
          modalState, promises, hook,
          internalKeys, multiple

\* AddonSettingsAccordion: its state and the values prop
settingsVars == <<internalValues, controlledValues>>

\* VisualBlueprintEditorInner: the React Flow view and the skip flag
canvasVars == <<flowNodes, flowEdges, selfUpdate>>

\* ToastProvider: the toast list, the scheduled callbacks, the id counter
toastVars == <<toasts, timers, idCounter>>

\* useConfirmModal / usePromptModal: the request shown and the promises
modalVars == <<modalState, promises, hook>>

\* Accordion: the open keys and the multiple prop
accordionVars == <<internalKeys, multiple>>

\* the components other than the blueprint editor
uiVars == <<settingsVars, canvasVars, toastVars, modalVars, accordionVars>>

vars == <<schema, previousGraph, graph, clock, op, steps, uiVars>>

\* a component that is not mounted
IdleSettings == internalValues = <<>> /\ controlledValues = <<>>

IdleCanvas == flowNodes = <<>> /\ flowEdges = <<>> /\ selfUpdate = FALSE

IdleToasts == toasts = <<>> /\ timers = {} /\ idCounter = 0

IdleModal == modalState = <<>> /\ promises = <<>> /\ hook = "none"

IdleAccordion == internalKeys = {} /\ multiple = FALSE

InitUi ==
    IdleSettings /\ IdleCanvas /\ IdleToasts /\ IdleModal /\ IdleAccordion

(***************************************************************************)
(* Layout constants (constants.ts, blueprint-graph.ts)                     *)
(***************************************************************************)
SECTION_HEADER_H == 56
ITEM_NODE_H == 48
GAP_SECTION_TO_ITEMS == 20
GAP_BETWEEN_ITEMS == 14
GAP_BETWEEN_SECTIONS == 40
ITEM_INDENT_X == 28
LAYOUT_START_X == 48
LAYOUT_START_Y == 32

(***************************************************************************)
(* Strings as token sequences                                              *)
(***************************************************************************)
DigitChars == <<"0", "1", "2", "3", "4", "5", "6", "7", "8", "9">>

IsDigit(c) == \E d \in 1..10 : DigitChars[d] = c

DigitValue(c) == (CHOOSE d \in 1..10 : DigitChars[d] = c) - 1

RECURSIVE NumberToString(_)
\* template literal `${n}` of a non-negative integer
NumberToString(n) ==
    IF n < 10 THEN <<DigitChars[n + 1]>>
    ELSE NumberToString(n \div 10) \o <<DigitChars[(n % 10) + 1]>>

RECURSIVE parseInt(_)
\* parseInt(m[1], 10) of a non-empty digit string
parseInt(s) ==
    IF Len(s) = 0 THEN 0
    ELSE parseInt(SubSeq(s, 1, Len(s) - 1)) * 10 + DigitValue(s[Len(s)])

\* `section_${secIdx}`
sectionIdByIndex(secIdx) == <<"section_">> \o NumberToString(secIdx)

\* n.id.match(/^section_(\d+)$/) ? parseInt(m[1], 10) : -1
SectionIdNumber(id) ==
    IF /\ Len(id) >= 2
       /\ id[1] = "section_"
       /\ \A k \in 2..Len(id) : IsDigit(id[k])
    THEN parseInt(SubSeq(id, 2, Len(id)))
    ELSE -1

\* `item_${Date.now()}`
ItemIdAt(now) == <<"item_">> \o NumberToString(now)

(***************************************************************************)
(* Sequence helpers (Array.prototype.filter / map / find)                  *)
(***************************************************************************)
IsSection(n) == n.type = "section"

IsItem(n) == n.type = "item"

getSectionNodes(g) == SelectSeq(g.nodes, IsSection)

getItemNodes(g) == SelectSeq(g.nodes, IsItem)

\* index of the first node with this id, 0 when there is none (Array.find)
FindIndex(nodes, id) ==
    IF \E i \in 1..Len(nodes) : nodes[i].id = id
    THEN CHOOSE i \in 1..Len(nodes) :
            /\ nodes[i].id = id
            /\ \A j \in 1..(i - 1) : nodes[j].id # id
    ELSE 0

(***************************************************************************)
(* schemaToBlueprintGraph (blueprint-graph.ts)                            *)
(***************************************************************************)
\* schema.nodes && schema.nodes.length > 0
HasNodeLayouts(s) == "nodes" \in DOMAIN s /\ Len(s.nodes) > 0

\* mutant: previousGraph is read first, schema.nodes after it
SavedPositionWritesLayoutLast(s, prev) ==
    (IF prev # <<>> THEN prev[1].nodes ELSE <<>>)
        \o (IF "nodes" \in DOMAIN s /\ Len(s.nodes) > 0 THEN s.nodes ELSE <<>>)

\* The writes to the savedPositions map, in program order: first the
\* entries of schema.nodes, then the nodes of previousGraph (if given).
SavedPositionWrites(s, prev) ==
    (IF HasNodeLayouts(s) THEN s.nodes ELSE <<>>)
        \o (IF prev # <<>> THEN prev[1].nodes ELSE <<>>)

\* savedPositions.has(id)
SavedHas(writes, id) == \E i \in 1..Len(writes) : writes[i].id = id

\* savedPositions.get(id): the value of the last set() for this key
SavedGet(writes, id) ==
    LET last == CHOOSE i \in 1..Len(writes) :
                    /\ writes[i].id = id
                    /\ \A j \in (i + 1)..Len(writes) : writes[j].id # id
    IN  writes[last].position

\* mutant: only schema.nodes entries (they carry no title or item) are used
PositionForLayoutOnly(writes, id, fallback) ==
    LET layout == SelectSeq(writes, LAMBDA w : "title" \notin DOMAIN w
                                                /\ "item" \notin DOMAIN w)
    IN  IF \E i \in 1..Len(layout) : layout[i].id = id
        THEN layout[CHOOSE i \in 1..Len(layout) :
                        /\ layout[i].id = id
                        /\ \A j \in (i + 1)..Len(layout) : layout[j].id # id
                   ].position
        ELSE fallback

\* savedPositions.get(id) ?? fallback
PositionFor(writes, id, fallback) ==
    IF SavedHas(writes, id) THEN SavedGet(writes, id) ELSE fallback

\* buttons.map((btn, bi) => ({ ...btn, id: btn.id || `${itemId}_btn_${bi}` }))
NormalizeButtons(buttons, itemId) ==
    [bi \in 1..Len(buttons) |->
        IF buttons[bi].id # <<>> THEN buttons[bi]
        ELSE [buttons[bi] EXCEPT
                !.id = itemId \o <<"_btn_">> \o NumberToString(bi - 1)]]

\* mutant: the synthesised id counts the items from 1
ItemIdOrSynthOneBased(item, sectionId, itemIdx) ==
    IF item.id # <<>> THEN item.id
    ELSE sectionId \o <<"_item_">> \o NumberToString(itemIdx + 1)

\* item.id || `${sectionId}_item_${itemIdx}`   (itemIdx is 0-based)
ItemIdOrSynth(item, sectionId, itemIdx) ==
    IF item.id # <<>> THEN item.id
    ELSE sectionId \o <<"_item_">> \o NumberToString(itemIdx)

NormalizeItem(item, itemId) ==
    LET withId == [item EXCEPT !.id = itemId]
    IN  IF withId.type = "text" /\ "buttons" \in DOMAIN withId
        THEN [withId EXCEPT !.buttons = NormalizeButtons(withId.buttons, itemId)]
        ELSE withId

SectionNode(id, title, position) ==
    [id |-> id, type |-> "section", title |-> title, position |-> position]

ItemNode(id, sectionId, item, position) ==
    [id |-> id, type |-> "item", sectionId |-> sectionId, item |-> item,
     position |-> position]

RECURSIVE ItemNodesFrom(_, _, _, _, _)
\* sec.items.forEach((item, itemIdx) => ...) from 1-based index k on, with
\* the running y
ItemNodesFrom(items, k, sectionId, writes, y) ==
    IF k > Len(items) THEN <<>>
    ELSE LET itemId == ItemIdOrSynth(items[k], sectionId, k - 1)
             itemPosition ==
                 PositionFor(writes, itemId,
                             [x |-> LAYOUT_START_X + ITEM_INDENT_X, y |-> y])
         IN  <<ItemNode(itemId, sectionId, NormalizeItem(items[k], itemId),
                        itemPosition)>>
               \o ItemNodesFrom(items, k + 1, sectionId, writes,
                                y + ITEM_NODE_H + GAP_BETWEEN_ITEMS)

RECURSIVE SectionNodesFromNoItemGaps(_, _, _, _)
\* mutant: the running y leaves the gaps between the items out
SectionNodesFromNoItemGaps(sections, k, writes, y) ==
    IF k > Len(sections) THEN <<>>
    ELSE LET sec == sections[k]
             sectionId == sectionIdByIndex(k - 1)
             position == PositionFor(writes, sectionId,
                                     [x |-> LAYOUT_START_X, y |-> y])
             yItems == y + SECTION_HEADER_H + GAP_SECTION_TO_ITEMS
             yEnd == yItems + Len(sec.items) * ITEM_NODE_H
         IN  <<SectionNode(sectionId, sec.title, position)>>
               \o ItemNodesFrom(sec.items, 1, sectionId, writes, yItems)
               \o SectionNodesFromNoItemGaps(sections, k + 1, writes,
                                             yEnd + GAP_BETWEEN_SECTIONS)

RECURSIVE SectionNodesFrom(_, _, _, _)
\* schema.sections.forEach((sec, secIdx) => ...) from 1-based index k on
SectionNodesFrom(sections, k, writes, y) ==
    IF k > Len(sections) THEN <<>>
    ELSE LET sec == sections[k]
             sectionId == sectionIdByIndex(k - 1)
             position == PositionFor(writes, sectionId,
                                     [x |-> LAYOUT_START_X, y |-> y])
             yItems == y + SECTION_HEADER_H + GAP_SECTION_TO_ITEMS
             yEnd == yItems + Len(sec.items) * (ITEM_NODE_H + GAP_BETWEEN_ITEMS)
         IN  <<SectionNode(sectionId, sec.title, position)>>
               \o ItemNodesFrom(sec.items, 1, sectionId, writes, yItems)
               \o SectionNodesFrom(sections, k + 1, writes,
                                   yEnd + GAP_BETWEEN_SECTIONS)

\* prev is <<>> (no previousGraph argument) or <<g>>
schemaToBlueprintGraph(s, prev) ==
    [nodes |-> SectionNodesFrom(s.sections, 1, SavedPositionWrites(s, prev),
                                LAYOUT_START_Y)]

(***************************************************************************)
(* blueprintGraphToSchema (blueprint-graph.ts)                            *)
(***************************************************************************)
\* a.item.order ?? 0
OrderKey(itemNode) ==
    IF "order" \in DOMAIN itemNode.item THEN itemNode.item.order ELSE 0

\* mutant: the comparator with its operands swapped
CompareOrderSwapped(a, b) == OrderKey(b) - OrderKey(a)

\* comparator of the sort: (a, b) => (a.item.order ?? 0) - (b.item.order ?? 0)
CompareOrder(a, b) == OrderKey(a) - OrderKey(b)

RECURSIVE InsertSorted(_, _)
\* mutant: e goes in front of the elements that compare equal to it
InsertSortedUnstable(sorted, e) ==
    IF sorted = <<>> THEN <<e>>
    ELSE IF CompareOrder(Head(sorted), e) >= 0 THEN <<e>> \o sorted
         ELSE <<Head(sorted)>> \o InsertSorted(Tail(sorted), e)

\* insert e behind every element that does not compare greater than it
InsertSorted(sorted, e) ==
    IF sorted = <<>> THEN <<e>>
    ELSE IF CompareOrder(Head(sorted), e) > 0 THEN <<e>> \o sorted
         ELSE <<Head(sorted)>> \o InsertSorted(Tail(sorted), e)

RECURSIVE SortByOrder(_)
\* Array.prototype.sort with CompareOrder: a stable sort (ECMAScript 2019)
SortByOrder(s) ==
    IF s = <<>> THEN <<>>
    ELSE InsertSorted(SortByOrder(SubSeq(s, 1, Len(s) - 1)), s[Len(s)])

\* new Set(sectionNodes.map(s => s.id))
SectionIdSet(g) ==
    {getSectionNodes(g)[i].id : i \in 1..Len(getSectionNodes(g))}

\* mutant: every item node that names some section node is kept
ItemsUnderAnySection(g, sec) ==
    LET Keep(it) == it.sectionId \in SectionIdSet(g)
    IN  SelectSeq(getItemNodes(g), Keep)

\* it.sectionId === sec.id && sectionIds.has(it.sectionId)
ItemsUnder(g, sec) ==
    LET Keep(it) == it.sectionId = sec.id /\ it.sectionId \in SectionIdSet(g)
    IN  SelectSeq(getItemNodes(g), Keep)

ExportSection(g, sec) ==
    LET sorted == SortByOrder(ItemsUnder(g, sec))
    IN  [title |-> sec.title,
         items |-> [i \in 1..Len(sorted) |-> sorted[i].item]]

\* mutant: every item node gets a sectionId entry
NodeLayoutAlwaysSectionId(n) ==
    IF n.type = "item"
    THEN [id |-> n.id, type |-> n.type, position |-> n.position,
          sectionId |-> n.sectionId]
    ELSE [id |-> n.id, type |-> n.type, position |-> n.position]

NodeLayout(n) ==
    IF n.type = "item" /\ n.sectionId # <<>>
    THEN [id |-> n.id, type |-> n.type, position |-> n.position,
          sectionId |-> n.sectionId]
    ELSE [id |-> n.id, type |-> n.type, position |-> n.position]

blueprintGraphToSchema(g) ==
    LET sectionNodes == getSectionNodes(g)
    IN  [sections |-> [i \in 1..Len(sectionNodes) |->
                          ExportSection(g, sectionNodes[i])],
         nodes |-> [i \in 1..Len(g.nodes) |-> NodeLayout(g.nodes[i])]]

(***************************************************************************)
(* createEmptyItem (createDefault.ts)                                      *)
(***************************************************************************)
ItemTypeNames ==
    {"text", "button", "slider", "file_picker", "color_picker", "select"}

createEmptyItem(type, id) ==
    CASE type = "text" ->
            [id |-> id, name |-> "", description |-> "", type |-> "text",
             buttons |-> <<>>]
      [] type = "slider" ->
            [id |-> id, name |-> "", description |-> "", type |-> "slider",
             min |-> 0, max |-> 100, step |-> 1, value |-> 0,
             defaultParameter |-> 0]
      [] type = "file_picker" ->
            [id |-> id, name |-> "", description |-> "",
             type |-> "file_picker", accept |-> "*", defaultParameter |-> ""]
      [] type = "color_picker" ->
            [id |-> id, name |-> "", description |-> "",
             type |-> "color_picker", defaultParameter |-> "#ffffff"]
      [] type = "select" ->
            [id |-> id, name |-> "", description |-> "", type |-> "select",
             options |-> <<[value |-> "option1", label |-> "Option 1"]>>,
             defaultParameter |-> "option1"]
      [] OTHER ->
            [id |-> id, name |-> "", description |-> "", type |-> "button",
             bool |-> TRUE, defaultParameter |-> TRUE]

(***************************************************************************)
(* Editing operations of BlueprintEditorProvider                           *)
(* (BlueprintEditorContext.tsx).  Each operator gives the argument of the  *)
(* onChange call as <<newGraph>>, or <<>> when the handler returns         *)
(* without calling onChange.                                               *)
(***************************************************************************)
\* mutant: the number of section nodes is taken as the next free number
nextSectionIdByCount(g) == sectionIdByIndex(Len(getSectionNodes(g)))

nextSectionId(g) ==
    LET sectionNodes == getSectionNodes(g)
        used == {SectionIdNumber(sectionNodes[i].id) :
                    i \in 1..Len(sectionNodes)}
        idx == CHOOSE i \in 0..Len(sectionNodes) :
                    /\ i \notin used
                    /\ \A j \in 0..(i - 1) : j \in used
    IN  sectionIdByIndex(idx)

updateSectionTitle(g, sectionId, title) ==
    LET Change(n) == IF n.id = sectionId /\ n.type = "section"
                     THEN [n EXCEPT !.title = title] ELSE n
    IN  <<[nodes |-> [i \in 1..Len(g.nodes) |-> Change(g.nodes[i])]]>>

updateItem(g, itemNodeId, item) ==
    LET Change(n) == IF n.id = itemNodeId /\ n.type = "item"
                     THEN [n EXCEPT !.item = item] ELSE n
    IN  <<[nodes |-> [i \in 1..Len(g.nodes) |-> Change(g.nodes[i])]]>>

addSectionAt(g, pos) ==
    <<[nodes |-> Append(g.nodes,
                        SectionNode(nextSectionId(g), "New Section",
                                    [x |-> pos.x, y |-> pos.y]))]>>

\* Math.max(...ys) of a non-empty list
MaxOf(ys) == CHOOSE m \in ys : \A v \in ys : v <= m

\* mutant: the new item goes below the item listed last under the section
addItemToSectionBelowLast(g, sectionId, type, now) ==
    LET k == FindIndex(g.nodes, sectionId)
        sec == g.nodes[k]
        newItem == createEmptyItem(type, ItemIdAt(now))
        Under(n) == n.sectionId = sectionId
        itemNodesUnder == SelectSeq(getItemNodes(g), Under)
        lastY ==
            IF Len(itemNodesUnder) > 0
            THEN itemNodesUnder[Len(itemNodesUnder)].position.y
                    + ITEM_NODE_H + GAP_BETWEEN_ITEMS
            ELSE sec.position.y + SECTION_HEADER_H + GAP_SECTION_TO_ITEMS
    IN  IF k = 0 THEN <<>>
        ELSE <<[nodes |-> Append(g.nodes,
                  ItemNode(newItem.id, sectionId, newItem,
                           [x |-> sec.position.x + ITEM_INDENT_X + 60,
                            y |-> lastY]))]>>

addItemToSection(g, sectionId, type, now) ==
    LET k == FindIndex(g.nodes, sectionId)
        sec == g.nodes[k]
        newItem == createEmptyItem(type, ItemIdAt(now))
        Under(n) == n.sectionId = sectionId
        itemNodesUnder == SelectSeq(getItemNodes(g), Under)
        lastY ==
            IF Len(itemNodesUnder) > 0
            THEN MaxOf({itemNodesUnder[i].position.y :
                            i \in 1..Len(itemNodesUnder)})
                    + ITEM_NODE_H + GAP_BETWEEN_ITEMS
            ELSE sec.position.y + SECTION_HEADER_H + GAP_SECTION_TO_ITEMS
    IN  IF k = 0 THEN <<>>
        ELSE <<[nodes |-> Append(g.nodes,
                  ItemNode(newItem.id, sectionId, newItem,
                           [x |-> sec.position.x + ITEM_INDENT_X + 60,
                            y |-> lastY]))]>>

createItemAtDrop(g, type, sectionId, pos, now) ==
    LET newItem == createEmptyItem(type, ItemIdAt(now))
    IN  <<[nodes |-> Append(g.nodes,
              ItemNode(newItem.id, sectionId, newItem,
                       [x |-> pos.x, y |-> pos.y]))]>>

\* { ...item, order: v }
WithOrder(item, v) ==
    [f \in (DOMAIN item) \cup {"order"} |-> IF f = "order" THEN v ELSE item[f]]

\* mutant: the attached item is numbered behind the items of the section
attachItemToSectionRenumbering(g, sectionId, itemNodeId) ==
    LET Under(n) == n.sectionId = sectionId
        count == Len(SelectSeq(getItemNodes(g), Under))
        Change(n) == IF n.id = itemNodeId /\ n.type = "item"
                     THEN [n EXCEPT !.sectionId = sectionId,
                                    !.item = WithOrder(n.item, count)]
                     ELSE n
    IN  <<[nodes |-> [i \in 1..Len(g.nodes) |-> Change(g.nodes[i])]]>>

attachItemToSection(g, sectionId, itemNodeId) ==
    LET Change(n) == IF n.id = itemNodeId /\ n.type = "item"
                     THEN [n EXCEPT !.sectionId = sectionId] ELSE n
    IN  <<[nodes |-> [i \in 1..Len(g.nodes) |-> Change(g.nodes[i])]]>>

deleteNode(g, nodeId) ==
    LET k == FindIndex(g.nodes, nodeId)
        KeepForSection(n) ==
            n.id # nodeId /\ (n.type # "item" \/ n.sectionId # nodeId)
        KeepForItem(n) == n.id # nodeId
    IN  IF k = 0 THEN <<>>
        ELSE IF g.nodes[k].type = "section"
             THEN <<[nodes |-> SelectSeq(g.nodes, KeepForSection)]>>
             ELSE <<[nodes |-> SelectSeq(g.nodes, KeepForItem)]>>

duplicateItem(g, itemN, now) ==
    LET newItem == [itemN.item EXCEPT !.id = ItemIdAt(now)]
        pos == [x |-> itemN.position.x + 30, y |-> itemN.position.y + 40]
    IN  <<[nodes |-> Append(g.nodes,
              ItemNode(newItem.id, itemN.sectionId, newItem, pos))]>>

detachItemById(g, itemNodeId) ==
    LET Change(n) == IF n.id = itemNodeId /\ n.type = "item"
                     THEN [n EXCEPT !.sectionId = <<>>] ELSE n
    IN  <<[nodes |-> [i \in 1..Len(g.nodes) |-> Change(g.nodes[i])]]>>

detachItem(g, itemN) == detachItemById(g, itemN.id)

(***************************************************************************)
(* Bounds and input pools                                                  *)
(***************************************************************************)
MaxClock == 1
MaxOps == 3

Pos(x, y) == [x |-> x, y |-> y]

PosPool == {Pos(200, 100)}

Titles == {"T"}

\* an id that no node of an editor graph has
AbsentId == <<"zz">>

\* ids a user may type into the ID field of an item node
EditIds == {<<"b">>}

\* values a user may type into the Order field of an item node
EditOrders == {1}

\* item types picked from the "Add ..." / "Create ..." context menus
AddTypes == {"slider"}

ButtonItem(id) ==
    [id |-> id, name |-> "n", type |-> "button", defaultParameter |-> TRUE]

EditorSchemas ==
    {[sections |-> <<[title |-> "A", items |-> <<ButtonItem(<<"a">>)>>],
                     [title |-> "B", items |-> <<>>]>>]}

EmptySchema == [sections |-> <<>>]

EmptyGraph == [nodes |-> <<>>]

NodeIds(g) == {g.nodes[i].id : i \in 1..Len(g.nodes)}

ItemNodeSet(g) == {g.nodes[i] : i \in {j \in 1..Len(g.nodes) : IsItem(g.nodes[j])}}

SectionIds(g) == SectionIdSet(g)

ItemIds(g) == {n.id : n \in ItemNodeSet(g)}

\* ids a handler may be called with: those of the nodes on the canvas, and
\* one of a node that is no longer there
ArgIds(g) == NodeIds(g) \cup {AbsentId}

SectionArgIds(g) == SectionIds(g) \cup {AbsentId}

\* { ...item, order: v } of the Order field, { ...item, id: e } of the ID field
ItemEdits(item) ==
    {[f \in (DOMAIN item) \cup {"order"} |->
        IF f = "order" THEN v ELSE item[f]] : v \in EditOrders}
        \cup {[item EXCEPT !.id = e] : e \in EditIds}

(***************************************************************************)
(* The editor: the host holds graph, commits every onChange(newGraph), and *)
(* re-renders the provider with it.  op describes the last call.           *)
(***************************************************************************)
\* the host commits the graph passed to onChange, if onChange was called
Commit(result) ==
    graph' = IF result = <<>> THEN graph ELSE result[1]

\* one more call of an editing operation
Step == steps < MaxOps /\ steps' = steps + 1

InitEditor ==
    /\ InitUi
    /\ schema \in EditorSchemas
    /\ previousGraph = <<>>
    /\ graph = schemaToBlueprintGraph(schema, previousGraph)
    /\ clock = 0
    /\ op = [name |-> "schemaToBlueprintGraph"]
    /\ steps = 0

\* Date.now() advances between two calls, or does not
Tick ==
    /\ clock < MaxClock
    /\ clock' = clock + 1
    /\ op' = [name |-> "tick"]
    /\ UNCHANGED <<schema, previousGraph, graph, steps, uiVars>>

UpdateSectionTitle ==
    \E sectionId \in ArgIds(graph), title \in Titles :
        /\ Commit(updateSectionTitle(graph, sectionId, title))
        /\ op' = [name |-> "updateSectionTitle", id |-> sectionId,
                  title |-> title, emitted |-> TRUE, before |-> graph]
        /\ Step
        /\ UNCHANGED <<schema, previousGraph, clock, uiVars>>

\* an item node's fields call it with the node's own id; other callers may
\* pass the id of a section node or of a node that is no longer there
UpdateItem ==
    \E n \in ItemNodeSet(graph) : \E item \in ItemEdits(n.item) :
      \E itemNodeId \in {n.id} \cup SectionArgIds(graph) :
        /\ Commit(updateItem(graph, itemNodeId, item))
        /\ op' = [name |-> "updateItem", id |-> itemNodeId, item |-> item,
                  emitted |-> TRUE, before |-> graph]
        /\ Step
        /\ UNCHANGED <<schema, previousGraph, clock, uiVars>>

AddSectionAt ==
    \E pos \in PosPool :
        /\ Commit(addSectionAt(graph, pos))
        /\ op' = [name |-> "addSectionAt", pos |-> pos, emitted |-> TRUE, before |-> graph]
        /\ Step
        /\ UNCHANGED <<schema, previousGraph, clock, uiVars>>

\* typeArg is <<>> when the optional type argument is left out
AddItemToSection ==
    \E sectionId \in SectionArgIds(graph),
       typeArg \in {<<>>} \cup {<<t>> : t \in AddTypes} :
        LET type == IF typeArg = <<>> THEN "button" ELSE typeArg[1]
            result == addItemToSection(graph, sectionId, type, clock)
        IN  /\ Commit(result)
            /\ op' = [name |-> "addItemToSection", id |-> sectionId,
                      type |-> typeArg, emitted |-> result # <<>>,
                      before |-> graph]
            /\ Step
        /\ UNCHANGED <<schema, previousGraph, clock, uiVars>>

CreateItemAtDrop ==
    \E sectionId \in SectionArgIds(graph), type \in AddTypes, pos \in PosPool :
        /\ Commit(createItemAtDrop(graph, type, sectionId, pos, clock))
        /\ op' = [name |-> "createItemAtDrop", id |-> sectionId,
                  type |-> type, pos |-> pos, emitted |-> TRUE, before |-> graph]
        /\ Step
        /\ UNCHANGED <<schema, previousGraph, clock, uiVars>>

AttachItemToSection ==
    \E sectionId \in SectionArgIds(graph), itemNodeId \in ItemIds(graph) :
        /\ Commit(attachItemToSection(graph, sectionId, itemNodeId))
        /\ op' = [name |-> "attachItemToSection", sectionId |-> sectionId,
                  id |-> itemNodeId, emitted |-> TRUE, before |-> graph]
        /\ Step
        /\ UNCHANGED <<schema, previousGraph, clock, uiVars>>

DeleteNode ==
    \E nodeId \in ArgIds(graph) :
        LET result == deleteNode(graph, nodeId)
        IN  /\ Commit(result)
            /\ op' = [name |-> "deleteNode", id |-> nodeId,
                      emitted |-> result # <<>>,
                      before |-> graph]
            /\ Step
        /\ UNCHANGED <<schema, previousGraph, clock, uiVars>>

DuplicateItem ==
    \E itemN \in ItemNodeSet(graph) :
        /\ Commit(duplicateItem(graph, itemN, clock))
        /\ op' = [name |-> "duplicateItem", node |-> itemN, emitted |-> TRUE, before |-> graph]
        /\ Step
        /\ UNCHANGED <<schema, previousGraph, clock, uiVars>>

DetachItem ==
    \E itemN \in ItemNodeSet(graph) :
        /\ itemN.sectionId # <<>>
        /\ Commit(detachItem(graph, itemN))
        /\ op' = [name |-> "detachItem", node |-> itemN, emitted |-> TRUE, before |-> graph]
        /\ Step
        /\ UNCHANGED <<schema, previousGraph, clock, uiVars>>

DetachItemById ==
    \E itemNodeId \in ItemIds(graph) :
        /\ Commit(detachItemById(graph, itemNodeId))
        /\ op' = [name |-> "detachItemById", id |-> itemNodeId,
                  emitted |-> TRUE, before |-> graph]
        /\ Step
        /\ UNCHANGED <<schema, previousGraph, clock, uiVars>>

\* the host saves the document and loads it again:
\* schemaToBlueprintGraph(blueprintGraphToSchema(graph))
Reload ==
    /\ schema' = blueprintGraphToSchema(graph)
    /\ graph' = schemaToBlueprintGraph(schema', previousGraph)
    /\ op' = [name |-> "reload", before |-> graph]
    /\ Step
    /\ UNCHANGED <<previousGraph, clock, uiVars>>

Next ==
    \/ Tick
    \/ UpdateSectionTitle
    \/ UpdateItem
    \/ AddSectionAt
    \/ AddItemToSection
    \/ CreateItemAtDrop
    \/ AttachItemToSection
    \/ DeleteNode
    \/ DuplicateItem
    \/ DetachItem
    \/ DetachItemById
    \/ Reload

Spec == InitEditor /\ [][Next]_vars

(***************************************************************************)
(* The converters on their own: a host that holds a schema document        *)
(* (possibly with a previous graph) or a graph and converts back and       *)
(* forth.  op.name tells which kind of value was produced last.            *)
(***************************************************************************)
MaxSections == 2
MaxItems == 2
MaxSaved == 2
MaxNodes == 3

SeqsUpTo(S, n) == UNION {[1..k -> S] : k \in 0..n}

\* a text item without id whose only button has no id either
TextItemNoIds ==
    [id |-> <<>>, name |-> "n", type |-> "text",
     buttons |-> <<[id |-> <<>>, text |-> "t"]>>]

ConvItems ==
    {ButtonItem(<<"a">>), ButtonItem(<<"b">>),
     WithOrder(ButtonItem(<<"a">>), 1), TextItemNoIds}

ConvTitles == {"A", "B"}

\* the sections that cut the item list flat behind the positions cut[i]
SectionsOfCut(flat, cut, titles) ==
    [i \in 1..Len(cut) |->
        [title |-> titles[i],
         items |-> SubSeq(flat, (IF i = 1 THEN 0 ELSE cut[i - 1]) + 1, cut[i])]]

\* every schema without persisted layout with at most MaxSections sections
\* and at most MaxItems items in all
RichSchemas ==
    {[sections |-> SectionsOfCut(flat, cut, titles)] :
        <<flat, cut, titles>> \in
            UNION {UNION {{<<f, c, t>> : t \in [1..n -> ConvTitles]} :
                        <<f, c>> \in
                            {fc \in SeqsUpTo(ConvItems, MaxItems)
                                        \X [1..n -> 0..MaxItems] :
                                /\ \A i \in 1..n : fc[2][i] <= Len(fc[1])
                                /\ \A i \in 1..(n - 1) : fc[2][i] <= fc[2][i + 1]
                                /\ IF n = 0 THEN fc[1] = <<>>
                                   ELSE fc[2][n] = Len(fc[1])}} :
                   n \in 0..MaxSections}}

P1 == Pos(100, 200)

P2 == Pos(300, 400)

LayoutSections ==
    <<[title |-> "A", items |-> <<ButtonItem(<<"a">>)>>],
      [title |-> "B", items |-> <<ButtonItem(<<"b">>)>>]>>

LayoutPool ==
    {[id |-> sectionIdByIndex(0), type |-> "section", position |-> p] :
        p \in {P1, P2}}
    \cup {[id |-> <<"a">>, type |-> "item", position |-> p,
           sectionId |-> sectionIdByIndex(0)] : p \in {P1, P2}}

PrevNodePool ==
    {SectionNode(sectionIdByIndex(0), "A", p) : p \in {P1, P2}}
    \cup {ItemNode(<<"a">>, sectionIdByIndex(0), ButtonItem(<<"a">>), p) :
            p \in {P1, P2}}

\* schemas with a persisted layout list (or none)
LayoutSchemas ==
    {[sections |-> LayoutSections]}
    \cup {[sections |-> LayoutSections, nodes |-> l] :
            l \in SeqsUpTo(LayoutPool, MaxSaved)}

PreviousGraphs ==
    {<<>>} \cup {<<[nodes |-> ns]>> : ns \in SeqsUpTo(PrevNodePool, MaxSaved)}

\* a section id that names no node
DanglingId == sectionIdByIndex(7)

GraphNodePool ==
    {SectionNode(sectionIdByIndex(0), "A", P1),
     SectionNode(sectionIdByIndex(1), "B", P2),
     ItemNode(<<"a">>, sectionIdByIndex(0), ButtonItem(<<"a">>), Pos(10, 10)),
     ItemNode(<<"b">>, sectionIdByIndex(0), ButtonItem(<<"b">>), Pos(20, 20)),
     ItemNode(<<"a">>, sectionIdByIndex(0), WithOrder(ButtonItem(<<"a">>), 1),
              Pos(10, 10)),
     ItemNode(<<"b">>, sectionIdByIndex(0), WithOrder(ButtonItem(<<"b">>), 0),
              Pos(20, 20)),
     ItemNode(<<"b">>, sectionIdByIndex(1), ButtonItem(<<"b">>), Pos(20, 20)),
     ItemNode(<<"a">>, <<>>, ButtonItem(<<"a">>), Pos(10, 10)),
     ItemNode(<<"b">>, DanglingId, ButtonItem(<<"b">>), Pos(20, 20))}

GraphPool == {[nodes |-> ns] : ns \in SeqsUpTo(GraphNodePool, MaxNodes)}

InitConv ==
    /\ InitUi
    /\ clock = 0
    /\ steps = 0
    /\ \/ /\ schema \in RichSchemas \cup LayoutSchemas
          /\ previousGraph \in
                IF schema \in LayoutSchemas THEN PreviousGraphs ELSE {<<>>}
          /\ graph = EmptyGraph
          /\ op = [name |-> "schema"]
       \/ /\ schema = EmptySchema
          /\ previousGraph = <<>>
          /\ graph \in GraphPool
          /\ op = [name |-> "graph"]

\* graph = schemaToBlueprintGraph(schema, previousGraph)
SchemaToGraph ==
    /\ op.name \in {"schema", "blueprintGraphToSchema"}
    /\ graph' = schemaToBlueprintGraph(schema, previousGraph)
    /\ op' = [name |-> "schemaToBlueprintGraph", schema |-> schema,
              source |-> IF op.name = "blueprintGraphToSchema"
                         THEN <<op.before>> ELSE <<>>]
    /\ UNCHANGED <<schema, previousGraph, clock, steps, uiVars>>

\* schema = blueprintGraphToSchema(graph)
GraphToSchema ==
    /\ op.name \in {"graph", "schemaToBlueprintGraph"}
    /\ schema' = blueprintGraphToSchema(graph)
    /\ op' = [name |-> "blueprintGraphToSchema", before |-> graph,
              source |-> IF op.name = "schemaToBlueprintGraph"
                         THEN <<op.schema>> ELSE <<>>]
    /\ UNCHANGED <<previousGraph, graph, clock, steps, uiVars>>

NextConv == SchemaToGraph \/ GraphToSchema

SpecConv == InitConv /\ [][NextConv]_vars

(***************************************************************************)
(* One call of an editing operation on a graph of the pool                 *)
(***************************************************************************)
OpsNodePool ==
    {SectionNode(sectionIdByIndex(0), "A", P1),
     SectionNode(sectionIdByIndex(1), "B", P2),
     ItemNode(<<"a">>, sectionIdByIndex(0), ButtonItem(<<"a">>), Pos(10, 10)),
     ItemNode(<<"b">>, sectionIdByIndex(0), WithOrder(ButtonItem(<<"b">>), 2),
              Pos(20, 20)),
     ItemNode(<<"b">>, sectionIdByIndex(1), ButtonItem(<<"b">>), Pos(20, 20)),
     ItemNode(<<"a">>, <<>>, ButtonItem(<<"a">>), Pos(10, 10))}

OpsGraphPool == {[nodes |-> ns] : ns \in SeqsUpTo(OpsNodePool, MaxNodes)}

InitOps ==
    /\ InitUi
    /\ schema = EmptySchema
    /\ previousGraph = <<>>
    /\ graph \in OpsGraphPool
    /\ clock = 0
    /\ op = [name |-> "graph"]
    /\ steps = MaxOps - 1

SpecOps == InitOps /\ [][Next]_vars

(***************************************************************************)
(* Properties of the converters (checked under SpecConv)                   *)
(***************************************************************************)
Imported == op.name = "schemaToBlueprintGraph"

Exported == op.name = "blueprintGraphToSchema"

\* a schema was converted to a graph and that graph back to a schema
SchemaRoundTrip == Exported /\ op.source # <<>>

EffectiveOrder(item) == IF "order" \in DOMAIN item THEN item.order ELSE 0

\* every section lists its items in non-decreasing effective order
ListedInOrder(s) ==
    \A k \in 1..Len(s.sections) :
        \A i \in 1..(Len(s.sections[k].items) - 1) :
            EffectiveOrder(s.sections[k].items[i])
                <= EffectiveOrder(s.sections[k].items[i + 1])

\* the sections of a schema, an item or button that lacks an id taken with
\* the id the graph gives it (items are compared by id)
SectionsById(s) ==
    [k \in 1..Len(s.sections) |->
        [title |-> s.sections[k].title,
         items |-> [i \in 1..Len(s.sections[k].items) |->
                      NormalizeItem(s.sections[k].items[i],
                                    ItemIdOrSynth(s.sections[k].items[i],
                                                  sectionIdByIndex(k - 1),
                                                  i - 1))]]]

\* C1, as stated: for any schema S, blueprintGraphToSchema(
\* schemaToBlueprintGraph(S)) has the sections of S: the same titles in the
\* same order and in every section the same items, with the same field
\* values, in the same order.
C1_RoundTripKeepsAnySchema ==
    SchemaRoundTrip => schema.sections = SectionsById(op.source[1])

\* C1, amended: for any schema S whose sections list their items in
\* non-decreasing effective order (no order counting as 0),
\* blueprintGraphToSchema(schemaToBlueprintGraph(S)) has the same section
\* titles in the same order and in every section the same items with the
\* same field values in the same order as S.
C1_RoundTripKeepsOrderedSchema ==
    (SchemaRoundTrip /\ ListedInOrder(op.source[1]))
        => schema.sections = SectionsById(op.source[1])

\* a section with an ordered item behind an unordered one went round
C1_Witness ==
    /\ SchemaRoundTrip
    /\ ListedInOrder(op.source[1])
    /\ \E k \in 1..Len(schema.sections) :
        LET items == schema.sections[k].items
        IN  /\ Len(items) = 2
            /\ "order" \notin DOMAIN items[1]
            /\ "order" \in DOMAIN items[2]
            /\ items[2].order = 1

\* --- position resolution of schemaToBlueprintGraph ---

RECURSIVE NodesBefore(_, _)
\* number of output nodes in front of the node of section k (1-based)
NodesBefore(sections, k) ==
    IF k = 1 THEN 0
    ELSE NodesBefore(sections, k - 1) + 1 + Len(sections[k - 1].items)

RECURSIVE DefaultSectionY(_, _)
\* sections stacked top to bottom: header, gap, items with gaps, section gap
DefaultSectionY(sections, k) ==
    IF k = 1 THEN LAYOUT_START_Y
    ELSE DefaultSectionY(sections, k - 1)
            + SECTION_HEADER_H + GAP_SECTION_TO_ITEMS
            + Len(sections[k - 1].items) * (ITEM_NODE_H + GAP_BETWEEN_ITEMS)
            + GAP_BETWEEN_SECTIONS

\* the default position of the j-th output node of a schema
DefaultPosition(sections, j) ==
    LET k == CHOOSE c \in 1..Len(sections) :
                /\ NodesBefore(sections, c) < j
                /\ j <= NodesBefore(sections, c) + 1 + Len(sections[c].items)
        i == j - NodesBefore(sections, k) - 1
    IN  IF i = 0
        THEN Pos(LAYOUT_START_X, DefaultSectionY(sections, k))
        ELSE Pos(LAYOUT_START_X + ITEM_INDENT_X,
                 DefaultSectionY(sections, k) + SECTION_HEADER_H
                    + GAP_SECTION_TO_ITEMS
                    + (i - 1) * (ITEM_NODE_H + GAP_BETWEEN_ITEMS))

\* the entries of a list that carry this id
EntriesOf(list, id) == {i \in 1..Len(list) : list[i].id = id}

\* the position the list records for this id (its last entry for the id)
RecordedPosition(list, id) ==
    list[CHOOSE i \in EntriesOf(list, id) :
            \A j \in EntriesOf(list, id) : j <= i].position

PersistedLayout(s) == IF "nodes" \in DOMAIN s THEN s.nodes ELSE <<>>

PreviousNodes(prev) == IF prev = <<>> THEN <<>> ELSE prev[1].nodes

InPersisted(id) == EntriesOf(PersistedLayout(op.schema), id) # {}

InPrevious(id) == EntriesOf(PreviousNodes(previousGraph), id) # {}

\* C3, as stated: the position of every output node is (a) the one recorded
\* for its id in schema.nodes, else (b) the one of the node with that id in
\* previousGraph, else (c) the computed default.
C3_PersistedLayoutFirst ==
    Imported =>
        \A j \in 1..Len(graph.nodes) :
            LET id == graph.nodes[j].id
            IN  graph.nodes[j].position =
                    IF InPersisted(id)
                    THEN RecordedPosition(PersistedLayout(op.schema), id)
                    ELSE IF InPrevious(id)
                         THEN RecordedPosition(PreviousNodes(previousGraph), id)
                         ELSE DefaultPosition(op.schema.sections, j)

\* C3, amended: the position of every output node is (a) the one of the node
\* with that id in previousGraph, else (b) the one recorded for that id in
\* schema.nodes, else (c) the computed default; when both hold a position
\* for the id and they differ, the node has the previousGraph position.
C3_PreviousGraphFirst ==
    Imported =>
        \A j \in 1..Len(graph.nodes) :
            LET id == graph.nodes[j].id
            IN  graph.nodes[j].position =
                    IF InPrevious(id)
                    THEN RecordedPosition(PreviousNodes(previousGraph), id)
                    ELSE IF InPersisted(id)
                         THEN RecordedPosition(PersistedLayout(op.schema), id)
                         ELSE DefaultPosition(op.schema.sections, j)

\* some output node's id has different positions in schema.nodes and in
\* previousGraph
C3_Witness ==
    /\ Imported
    /\ \E j \in 1..Len(graph.nodes) :
        LET id == graph.nodes[j].id
        IN  /\ InPersisted(id)
            /\ InPrevious(id)
            /\ RecordedPosition(PersistedLayout(op.schema), id)
                    # RecordedPosition(PreviousNodes(previousGraph), id)

PositionsOf(list, id) == {list[i].position : i \in EntriesOf(list, id)}

\* C4: every output node whose id occurs in previousGraph has the position
\* that node has in previousGraph; a node whose id occurs neither in S.nodes
\* nor in previousGraph has the freshly computed default position, and every
\* other node has a position that S.nodes or previousGraph holds for its id.
C4_PreviousPositionsReused ==
    Imported =>
        \A j \in 1..Len(graph.nodes) :
            LET id == graph.nodes[j].id
                pos == graph.nodes[j].position
            IN  /\ InPrevious(id) =>
                    pos = RecordedPosition(PreviousNodes(previousGraph), id)
                /\ (~InPrevious(id) /\ ~InPersisted(id)) =>
                    pos = DefaultPosition(op.schema.sections, j)
                /\ (InPrevious(id) \/ InPersisted(id)) =>
                    pos \in PositionsOf(PersistedLayout(op.schema), id)
                            \cup PositionsOf(PreviousNodes(previousGraph), id)

\* one output node took its position from previousGraph, another one its
\* default position
C4_Witness ==
    /\ Imported
    /\ previousGraph # <<>>
    /\ \E j \in 1..Len(graph.nodes) : InPrevious(graph.nodes[j].id)
    /\ \E j \in 1..Len(graph.nodes) :
        /\ ~InPrevious(graph.nodes[j].id)
        /\ ~InPersisted(graph.nodes[j].id)

\* --- blueprintGraphToSchema on a graph ---

\* the graph that was exported
Source == op.before

SectionIndexes(g) == {i \in 1..Len(g.nodes) : g.nodes[i].type = "section"}

\* the index in g.nodes of the k-th section node
SectionIndex(g, k) ==
    CHOOSE i \in SectionIndexes(g) :
        Cardinality({j \in SectionIndexes(g) : j <= i}) = k

\* the indexes in g.nodes of the item nodes whose sectionId is id
AttachedIndexes(g, id) ==
    {i \in 1..Len(g.nodes) :
        g.nodes[i].type = "item" /\ g.nodes[i].sectionId = id}

\* the place of node i among the exported items of its section: behind the
\* nodes of lower effective order and behind the earlier nodes of the same
\* effective order
ExportRank(g, id, i) ==
    1 + Cardinality({j \in AttachedIndexes(g, id) :
            \/ EffectiveOrder(g.nodes[j].item) < EffectiveOrder(g.nodes[i].item)
            \/ /\ EffectiveOrder(g.nodes[j].item)
                    = EffectiveOrder(g.nodes[i].item)
               /\ j < i})

\* C5: the items of each exported section are ordered by effective order
\* ascending (no order counting as 0), and items of equal effective order
\* keep the relative order of their nodes in graph.nodes.
C5_ExportSortsStably ==
    Exported =>
        \A k \in 1..Len(schema.sections) :
            LET id == Source.nodes[SectionIndex(Source, k)].id
                items == schema.sections[k].items
            IN  /\ \A m \in 1..(Len(items) - 1) :
                        EffectiveOrder(items[m]) <= EffectiveOrder(items[m + 1])
                /\ \A i \in AttachedIndexes(Source, id) :
                        /\ ExportRank(Source, id, i) <= Len(items)
                        /\ items[ExportRank(Source, id, i)] = Source.nodes[i].item

\* nodes [item_b, item_a] without order under one section were exported as
\* [item_b, item_a]
C5_Witness ==
    /\ Exported
    /\ \E g \in {Source} :
        /\ Len(g.nodes) = 3
        /\ g.nodes[1].type = "section"
        /\ g.nodes[2] = ItemNode(<<"b">>, g.nodes[1].id, ButtonItem(<<"b">>),
                                 Pos(20, 20))
        /\ g.nodes[3] = ItemNode(<<"a">>, g.nodes[1].id, ButtonItem(<<"a">>),
                                 Pos(10, 10))
        /\ schema.sections[1].items
                = <<ButtonItem(<<"b">>), ButtonItem(<<"a">>)>>

\* how often a payload occurs in a list of items
Occurrences(items, payload) ==
    Cardinality({i \in 1..Len(items) : items[i] = payload})

\* C6: one section per section node, in graph.nodes order, with its title;
\* the items of a section are exactly the payloads of the item nodes whose
\* sectionId equals that section node's id, so that an item node whose
\* sectionId is empty or names no section node is in no exported section.
C6_ExportSectionsAndMembers ==
    Exported =>
        /\ DOMAIN schema = {"sections", "nodes"}
        /\ Len(schema.sections) = Cardinality(SectionIndexes(Source))
        /\ \A k \in 1..Len(schema.sections) :
            LET sec == Source.nodes[SectionIndex(Source, k)]
                items == schema.sections[k].items
            IN  /\ schema.sections[k].title = sec.title
                /\ Len(items) = Cardinality(AttachedIndexes(Source, sec.id))
                /\ \A i \in AttachedIndexes(Source, sec.id) :
                        Occurrences(items, Source.nodes[i].item) =
                            Cardinality({j \in AttachedIndexes(Source, sec.id) :
                                Source.nodes[j].item = Source.nodes[i].item})

\* a graph with a section node, a detached item node and an item node whose
\* sectionId names no section node was exported: its section has no items
C6_Witness ==
    /\ Exported
    /\ Len(schema.sections) = 1
    /\ Len(schema.sections[1].items) = 0
    /\ \E i, j \in 1..Len(Source.nodes) :
        /\ Source.nodes[i].type = "item"
        /\ Source.nodes[i].sectionId = <<>>
        /\ Source.nodes[j].type = "item"
        /\ Source.nodes[j].sectionId = DanglingId

\* C7: exactly one NodeLayout entry per node, in node-list order, with the
\* node's id, type and position; the entry has a sectionId exactly when the
\* node is an item node with a non-empty sectionId, and then the node's.
C7_ExportLayoutPerNode ==
    Exported =>
        /\ Len(schema.nodes) = Len(Source.nodes)
        /\ \A i \in 1..Len(Source.nodes) :
            LET n == Source.nodes[i]
                l == schema.nodes[i]
                attached == n.type = "item" /\ n.sectionId # <<>>
            IN  /\ l.id = n.id
                /\ l.type = n.type
                /\ l.position = n.position
                /\ DOMAIN l = {"id", "type", "position"}
                        \cup (IF attached THEN {"sectionId"} ELSE {})
                /\ attached => l.sectionId = n.sectionId

\* a section node, an attached item node and a detached item node were
\* exported
C7_Witness ==
    /\ Exported
    /\ Len(Source.nodes) = 3
    /\ \E i, j, k \in 1..3 :
        /\ Source.nodes[i].type = "section"
        /\ Source.nodes[j].type = "item"
        /\ Source.nodes[j].sectionId = Source.nodes[i].id
        /\ Source.nodes[k].type = "item"
        /\ Source.nodes[k].sectionId = <<>>
        /\ "sectionId" \in DOMAIN schema.nodes[j]
        /\ "sectionId" \notin DOMAIN schema.nodes[k]

(***************************************************************************)
(* Properties of the editor (checked under Spec and SpecOps)               *)
(***************************************************************************)
Reloaded == op.name = "reload"

\* the graph the last call worked on
Before == op.before

SectionNodeSet(g) == {g.nodes[i] : i \in SectionIndexes(g)}

\* the item nodes attached to a section node of the graph
AttachedItemNodes(g) ==
    {n \in ItemNodeSet(g) : \E sec \in SectionNodeSet(g) : sec.id = n.sectionId}

\* C2: for every graph G the editing operations reach,
\* schemaToBlueprintGraph(blueprintGraphToSchema(G)) gives every section node
\* of G (taken in node-list order) its title and position, and holds for
\* every attached item node of G an item node with the same payload and
\* position that is attached to a section node with the title and position
\* of its section in G.
C2_ReloadKeepsPositionsAndEdges ==
    Reloaded =>
        /\ \A k \in 1..Cardinality(SectionIndexes(Before)) :
            /\ k <= Cardinality(SectionIndexes(graph))
            /\ graph.nodes[SectionIndex(graph, k)].title
                    = Before.nodes[SectionIndex(Before, k)].title
            /\ graph.nodes[SectionIndex(graph, k)].position
                    = Before.nodes[SectionIndex(Before, k)].position
        /\ \A n \in AttachedItemNodes(Before) :
            \E m \in ItemNodeSet(graph) :
                /\ m.item = n.item
                /\ m.position = n.position
                /\ \A sec \in SectionNodeSet(Before) :
                    sec.id = n.sectionId =>
                        \E sec2 \in SectionNodeSet(graph) :
                            /\ sec2.id = m.sectionId
                            /\ sec2.title = sec.title
                            /\ sec2.position = sec.position

\* C8: for a graph G with a detached item node n (sectionId empty), the graph
\* schemaToBlueprintGraph(blueprintGraphToSchema(G)) still has a node with
\* n's id at n's position.
C8_ReloadKeepsDetachedItems ==
    Reloaded =>
        \A n \in ItemNodeSet(Before) :
            n.sectionId = <<>> =>
                \E m \in ItemNodeSet(graph) :
                    m.id = n.id /\ m.position = n.position

\* the lowest n >= 0 such that no section node of g has the id section_<n>
LowestFreeSectionNumber(g) ==
    CHOOSE n \in 0..Len(g.nodes) :
        /\ \A sec \in SectionNodeSet(g) : sec.id # sectionIdByIndex(n)
        /\ \A m \in 0..(n - 1) :
                \E sec \in SectionNodeSet(g) : sec.id = sectionIdByIndex(m)

\* C9: addSectionAt appends one section node whose id is section_<n>, n the
\* lowest non-negative integer no existing section node uses; the id differs
\* from every existing section id; the nodes that existed are unchanged and
\* keep their order.
C9_AddSectionTakesLowestFreeId ==
    op.name = "addSectionAt" =>
        /\ op.emitted
        /\ Len(graph.nodes) = Len(Before.nodes) + 1
        /\ SubSeq(graph.nodes, 1, Len(Before.nodes)) = Before.nodes
        /\ graph.nodes[Len(graph.nodes)].type = "section"
        /\ graph.nodes[Len(graph.nodes)].id
                = sectionIdByIndex(LowestFreeSectionNumber(Before))
        /\ \A sec \in SectionNodeSet(Before) :
                sec.id # graph.nodes[Len(graph.nodes)].id

\* a graph that has section_1 but not section_0 got a new section section_0
C9_Witness ==
    /\ op.name = "addSectionAt"
    /\ \E sec \in SectionNodeSet(Before) : sec.id = sectionIdByIndex(1)
    /\ \A sec \in SectionNodeSet(Before) : sec.id # sectionIdByIndex(0)
    /\ graph.nodes[Len(graph.nodes)].id = sectionIdByIndex(0)

\* a sequence without the elements at the indexes in gone
WithoutIndexes(seq, gone) ==
    LET kept == {i \in 1..Len(seq) : i \notin gone}
        Nth(k) == CHOOSE i \in kept : Cardinality({j \in kept : j <= i}) = k
    IN  [k \in 1..Cardinality(kept) |-> seq[Nth(k)]]

\* C10: deleteNode on a section node removes exactly that node and every item
\* node whose sectionId equals its id; deleteNode on an item node removes
\* only that node; the remaining nodes are unchanged and keep their order;
\* deleteNode of an id that no node has produces no new graph.
C10_DeleteRemovesExactly ==
    op.name = "deleteNode" =>
        LET k == FindIndex(Before.nodes, op.id)
        IN  IF k = 0
            THEN ~op.emitted /\ graph = Before
            ELSE /\ op.emitted
                 /\ graph.nodes =
                        WithoutIndexes(Before.nodes,
                            {k} \cup (IF Before.nodes[k].type = "section"
                                      THEN AttachedIndexes(Before, op.id)
                                      ELSE {}))

\* the last call was a detach of an item node (by node or by id)
Detached == op.name \in {"detachItem", "detachItemById"}

\* the id the detach was called with
DetachedId == IF op.name = "detachItem" THEN op.node.id ELSE op.id

\* C11: detachItem / detachItemById on an item node sets that node's
\* sectionId to the empty string and leaves its id, item payload and
\* position unchanged; the number of nodes, their order and every other node
\* are unchanged.
C11_DetachClearsOnlySectionId ==
    Detached =>
        \E k \in 1..Len(Before.nodes) :
            /\ Before.nodes[k].type = "item"
            /\ Before.nodes[k].id = DetachedId
            /\ graph.nodes = [Before.nodes EXCEPT ![k].sectionId = <<>>]

(***************************************************************************)
(* Invariants of the editor graph (checked under Spec)                     *)
(***************************************************************************)
\* C12: in every graph reachable from a schemaToBlueprintGraph output by the
\* editing operations, every item node with a non-empty sectionId names the
\* id of a section node present in the same graph.
C12_AttachedItemsNameSections ==
    \A n \in ItemNodeSet(graph) :
        n.sectionId # <<>> => n.sectionId \in SectionIds(graph)

\* all node ids of a graph are pairwise distinct
UniqueNodeIds(g) ==
    \A i, j \in 1..Len(g.nodes) : g.nodes[i].id = g.nodes[j].id => i = j

\* the operations C13 speaks of: every editing operation but the manual edit
\* of an item (updateItem)
KeepsIdsOps ==
    {"addSectionAt", "addItemToSection", "createItemAtDrop", "duplicateItem",
     "attachItemToSection", "detachItem", "detachItemById", "deleteNode",
     "updateSectionTitle"}

\* C13: from a graph with pairwise distinct node ids, add section, add item,
\* create item at drop, duplicate item, attach, detach, delete and title
\* update give a graph with pairwise distinct node ids, whatever the timing
\* of the calls: a created item receives an id that no existing node has.
C13_NodeIdsStayUnique ==
    (op.name \in KeepsIdsOps /\ UniqueNodeIds(Before)) => UniqueNodeIds(graph)

\* C14: in every graph reachable from a schemaToBlueprintGraph output by the
\* editing operations, updateItem with an edited id included, every item
\* node's id equals the id of its item payload.
C14_NodeIdIsItemId ==
    \A n \in ItemNodeSet(graph) : n.id = n.item.id

(***************************************************************************)
(* Structure and default layout of schemaToBlueprintGraph (SpecConv)       *)
(***************************************************************************)
\* the schema the last schemaToBlueprintGraph call was given
ImportedSchema == op.schema

\* the node made for section k (1-based) of the imported schema
ImportedSectionNode(k) ==
    graph.nodes[NodesBefore(ImportedSchema.sections, k) + 1]

\* the node made for item i (1-based) of section k of the imported schema
ImportedItemNode(k, i) ==
    graph.nodes[NodesBefore(ImportedSchema.sections, k) + 1 + i]

\* the id an item node gets: the item's own id or <sectionId>_item_<index>
ExpectedItemId(k, i) ==
    LET item == ImportedSchema.sections[k].items[i]
    IN  IF item.id # <<>> THEN item.id
        ELSE <<"section_">> \o NumberToString(k - 1) \o <<"_item_">>
                \o NumberToString(i - 1)

\* one section node per section and one item node per item, each section
\* node directly followed by the nodes of its items in item order, with
\* their ids, titles and sectionIds
ImportedNodesInPlace ==
    LET sections == ImportedSchema.sections
    IN  /\ Len(graph.nodes) = NodesBefore(sections, Len(sections) + 1)
        /\ \A k \in 1..Len(sections) :
            /\ ImportedSectionNode(k).type = "section"
            /\ ImportedSectionNode(k).id
                    = <<"section_">> \o NumberToString(k - 1)
            /\ ImportedSectionNode(k).title = sections[k].title
            /\ \A i \in 1..Len(sections[k].items) :
                /\ ImportedItemNode(k, i).type = "item"
                /\ ImportedItemNode(k, i).id = ExpectedItemId(k, i)
                /\ ImportedItemNode(k, i).sectionId
                        = ImportedSectionNode(k).id

\* the item with the given id filled in
ItemWithId(item, itemId) == [item EXCEPT !.id = itemId]

\* the item with the given id filled in and, for a text item, every button
\* that has no id given the id <itemId>_btn_<index>
ItemWithIds(item, itemId) ==
    IF item.type = "text" /\ "buttons" \in DOMAIN item
    THEN [item EXCEPT
            !.id = itemId,
            !.buttons = [bi \in 1..Len(item.buttons) |->
                IF item.buttons[bi].id # <<>> THEN item.buttons[bi]
                ELSE [item.buttons[bi] EXCEPT
                        !.id = itemId \o <<"_btn_">>
                                  \o NumberToString(bi - 1)]]]
    ELSE [item EXCEPT !.id = itemId]

\* C15, as stated: schemaToBlueprintGraph(S) has one section node per
\* section with id section_<index> and its title, one item node per item
\* directly after its section's node in item order, each with the
\* section's id as sectionId, the item's id (or <sectionId>_item_<index>)
\* as id, and as payload the item with that id filled in.
C15_ImportPayloadIdFilled ==
    Imported =>
        /\ ImportedNodesInPlace
        /\ \A k \in 1..Len(ImportedSchema.sections) :
            \A i \in 1..Len(ImportedSchema.sections[k].items) :
                ImportedItemNode(k, i).item
                    = ItemWithId(ImportedSchema.sections[k].items[i],
                                 ExpectedItemId(k, i))

\* C15, amended: as above, but the payload is the item with that id filled
\* in and, for a text item, with the id <itemId>_btn_<index> given to every
\* button that has no id.
C15_ImportPayloadIdsFilled ==
    Imported =>
        /\ ImportedNodesInPlace
        /\ \A k \in 1..Len(ImportedSchema.sections) :
            \A i \in 1..Len(ImportedSchema.sections[k].items) :
                ImportedItemNode(k, i).item
                    = ItemWithIds(ImportedSchema.sections[k].items[i],
                                  ExpectedItemId(k, i))

\* a schema whose second section starts with a text item that has no id and
\* a button without id was imported
C15_Witness ==
    /\ Imported
    /\ Len(ImportedSchema.sections) = 2
    /\ Len(ImportedSchema.sections[2].items) >= 1
    /\ ImportedSchema.sections[2].items[1].id = <<>>
    /\ ImportedSchema.sections[2].items[1].type = "text"
    /\ ImportedItemNode(2, 1).id = <<"section_", "1", "_item_", "0">>
    /\ ImportedItemNode(2, 1).item.buttons[1].id
            = <<"section_", "1", "_item_", "0", "_btn_", "0">>

\* a schema without persisted layout was imported without a previous graph
ImportedWithDefaults ==
    /\ Imported
    /\ ~HasNodeLayouts(ImportedSchema)
    /\ previousGraph = <<>>

\* the y at which the item stack of section k ends: one item pitch (48 + 14)
\* below its last item, or header height + gap (56 + 20) below the section
\* when it has no item
StackEndY(k) ==
    LET n == Len(ImportedSchema.sections[k].items)
    IN  IF n = 0 THEN ImportedSectionNode(k).position.y + 56 + 20
        ELSE ImportedItemNode(k, n).position.y + 48 + 14

\* C16: with no persisted layout and no previous graph the first section is
\* at (48, 32), the first item of a section is header height + gap (56 + 20)
\* below its section, each further item is 48 + 14 below the previous one,
\* the next section starts 40 below the end of the previous section's item
\* stack, all sections are at x = 48 and all items at x = 76.
C16_DefaultLayout ==
    ImportedWithDefaults =>
        LET sections == ImportedSchema.sections
        IN  \A k \in 1..Len(sections) :
                /\ ImportedSectionNode(k).position.x = 48
                /\ ImportedSectionNode(k).position.y =
                        IF k = 1 THEN 32 ELSE StackEndY(k - 1) + 40
                /\ \A i \in 1..Len(sections[k].items) :
                    /\ ImportedItemNode(k, i).position.x = 76
                    /\ ImportedItemNode(k, i).position.y =
                            IF i = 1
                            THEN ImportedSectionNode(k).position.y + 56 + 20
                            ELSE ImportedItemNode(k, i - 1).position.y
                                    + 48 + 14

\* a first section with two items and a second section were laid out:
\* items at (76, 108) and (76, 170), the second section at (48, 272)
C16_Witness ==
    /\ ImportedWithDefaults
    /\ Len(ImportedSchema.sections) = 2
    /\ Len(ImportedSchema.sections[1].items) = 2
    /\ ImportedItemNode(1, 1).position = Pos(76, 108)
    /\ ImportedItemNode(1, 2).position = Pos(76, 170)
    /\ ImportedSectionNode(2).position = Pos(48, 272)

(***************************************************************************)
(* Properties of the editing operations (checked under SpecOps)            *)
(***************************************************************************)
\* the node the last call appended
NewNode == graph.nodes[Len(graph.nodes)]

\* the last call appended one node and left the earlier nodes as they were
AppendedOneNode ==
    /\ Len(graph.nodes) = Len(Before.nodes) + 1
    /\ SubSeq(graph.nodes, 1, Len(Before.nodes)) = Before.nodes

\* the y values of the item nodes under a section in the graph before
YsUnder(sectionId) ==
    {n.position.y : n \in {m \in ItemNodeSet(Before) : m.sectionId = sectionId}}

\* the first section node with the given id in the graph before
SectionBefore(sectionId) ==
    Before.nodes[CHOOSE k \in 1..Len(Before.nodes) :
                    /\ Before.nodes[k].id = sectionId
                    /\ \A j \in 1..(k - 1) : Before.nodes[j].id # sectionId]

\* the type addItemToSection was asked for: 'button' when none is given
RequestedType == IF op.type = <<>> THEN "button" ELSE op.type[1]

\* C17: addItemToSection(sectionId, type) on a graph that has the target
\* section appends exactly one item node whose sectionId is sectionId and
\* whose payload is the default item of the requested type ('button' when
\* none is given); its y is the largest y of the item nodes already under
\* the section plus 48 + 14, or the section's y plus 56 + 20 when the
\* section has no items; the earlier nodes are unchanged.  When no node has
\* id sectionId no new graph is emitted.
C17_AddItemAppendsBelow ==
    op.name = "addItemToSection" =>
        IF op.id \in SectionIds(Before)
        THEN /\ op.emitted
             /\ AppendedOneNode
             /\ NewNode.type = "item"
             /\ NewNode.sectionId = op.id
             /\ NewNode.item.type = RequestedType
             /\ NewNode.item = createEmptyItem(RequestedType, NewNode.item.id)
             /\ NewNode.position.y =
                    IF YsUnder(op.id) # {}
                    THEN MaxOf(YsUnder(op.id)) + 48 + 14
                    ELSE SectionBefore(op.id).position.y + 56 + 20
        ELSE op.id \notin NodeIds(Before) => (~op.emitted /\ graph = Before)

\* an item was added to a section whose lowest item is not listed last:
\* section at y 200 with items at y 20 and y 10, the new item at y 82
C17_Witness ==
    /\ op.name = "addItemToSection"
    /\ op.emitted
    /\ Len(Before.nodes) = 3
    /\ Before.nodes[1].type = "section" /\ Before.nodes[1].id = op.id
    /\ Before.nodes[2].type = "item" /\ Before.nodes[2].sectionId = op.id
    /\ Before.nodes[3].type = "item" /\ Before.nodes[3].sectionId = op.id
    /\ Before.nodes[2].position.y = 20
    /\ Before.nodes[3].position.y = 10
    /\ NewNode.position.y = 82

\* what addItemToSection(sectionId, type) gives for the graph, section id,
\* type and time of the last createItemAtDrop call
AddedInstead == addItemToSection(Before, op.id, op.type, clock)

\* C18: createItemAtDrop(type, sectionId, pos) is identical to
\* addItemToSection(sectionId, type) except for the position of the new
\* node: both emit a new graph or both emit none, and the graphs they emit
\* differ only in the position of the new item node, which is pos for
\* createItemAtDrop.
C18_CreateAtDropLikeAddItem ==
    op.name = "createItemAtDrop" =>
        /\ op.emitted = (AddedInstead # <<>>)
        /\ op.emitted =>
            /\ Len(graph.nodes) = Len(AddedInstead[1].nodes)
            /\ \A i \in 1..(Len(graph.nodes) - 1) :
                    graph.nodes[i] = AddedInstead[1].nodes[i]
            /\ NewNode.position = op.pos
            /\ [NewNode EXCEPT !.position =
                    AddedInstead[1].nodes[Len(graph.nodes)].position]
                    = AddedInstead[1].nodes[Len(graph.nodes)]

\* C19: duplicateItem(n) appends exactly one item node whose payload equals
\* n's payload except for a freshly generated id (one that no node of the
\* graph has), whose node id is that new id, whose sectionId equals n's
\* sectionId and whose position is n's position plus (30, 40); n and all
\* other existing nodes are unchanged.
C19_DuplicateClonesWithFreshId ==
    op.name = "duplicateItem" =>
        /\ op.emitted
        /\ AppendedOneNode
        /\ NewNode.type = "item"
        /\ NewNode.id \notin NodeIds(Before)
        /\ NewNode.id = NewNode.item.id
        /\ [NewNode.item EXCEPT !.id = op.node.item.id] = op.node.item
        /\ NewNode.sectionId = op.node.sectionId
        /\ NewNode.position = Pos(op.node.position.x + 30,
                                  op.node.position.y + 40)

\* the indexes of the nodes of the given type that have the given id
IndexesOf(g, id, type) ==
    {k \in 1..Len(g.nodes) : g.nodes[k].id = id /\ g.nodes[k].type = type}

\* C20: updateSectionTitle(id, t) changes only the title of the section node
\* with that id, and updateItem(id, item) changes only the item payload of
\* the item node with that id; the number and order of nodes and every
\* other node are unchanged, and an id naming a node of the other type, or
\* no node, leaves every node unchanged.
C20_UpdatesChangeOneNode ==
    /\ op.name = "updateSectionTitle" =>
        IF IndexesOf(Before, op.id, "section") = {}
        THEN graph = Before
        ELSE \E k \in IndexesOf(Before, op.id, "section") :
                graph.nodes = [Before.nodes EXCEPT ![k].title = op.title]
    /\ op.name = "updateItem" =>
        IF IndexesOf(Before, op.id, "item") = {}
        THEN graph = Before
        ELSE \E k \in IndexesOf(Before, op.id, "item") :
                graph.nodes = [Before.nodes EXCEPT ![k].item = op.item]

\* the operations that are not an edit of an item
StructuralOps ==
    {"addSectionAt", "addItemToSection", "createItemAtDrop", "duplicateItem",
     "attachItemToSection", "detachItem", "detachItemById", "deleteNode"}

\* the nodes with everything but id, type and item payload left out
Payloads(nodes) ==
    [i \in 1..Len(nodes) |->
        IF nodes[i].type = "item"
        THEN [id |-> nodes[i].id, type |-> "item", item |-> nodes[i].item]
        ELSE [id |-> nodes[i].id, type |-> "section"]]

\* C21: add section, add item, create item at drop, duplicate, attach,
\* detach and delete leave the item payload, the order field included, of
\* every item node that existed before the operation and still exists after
\* it unchanged: the nodes that were there keep their place and payload,
\* or, for delete, the nodes that remain are nodes of the graph before, in
\* their order, with their payloads.
C21_PayloadsKeptByStructuralOps ==
    op.name \in StructuralOps =>
        IF op.name = "deleteNode"
        THEN \E gone \in SUBSET (1..Len(Before.nodes)) :
                Payloads(graph.nodes)
                    = WithoutIndexes(Payloads(Before.nodes), gone)
        ELSE /\ Len(graph.nodes) >= Len(Before.nodes)
             /\ SubSeq(Payloads(graph.nodes), 1, Len(Before.nodes))
                    = Payloads(Before.nodes)

\* an item with an order value was attached to another section and kept it
C21_Witness ==
    /\ op.name = "attachItemToSection"
    /\ \E k \in 1..Len(Before.nodes) :
        /\ Before.nodes[k].type = "item"
        /\ Before.nodes[k].id = op.id
        /\ "order" \in DOMAIN Before.nodes[k].item
        /\ Before.nodes[k].sectionId # op.sectionId
        /\ graph.nodes[k].sectionId = op.sectionId
        /\ graph.nodes[k].item.order = Before.nodes[k].item.order

(***************************************************************************)
(* AddonSettingsAccordion (AddonSettingsAccordion.tsx): the values map     *)
(* keyed by item id.  A value of the map is a boolean, a number or a       *)
(* string; it is written as a record that tells which.                     *)
(***************************************************************************)
BoolValue(b) == [kind |-> "boolean", bool |-> b, num |-> 0, str |-> ""]

NumValue(n) == [kind |-> "number", bool |-> FALSE, num |-> n, str |-> ""]

StrValue(t) == [kind |-> "string", bool |-> FALSE, num |-> 0, str |-> t]

\* item.buttons?.[0] is defined
HasFirstButton(item) == "buttons" \in DOMAIN item /\ Len(item.buttons) > 0

\* mutant: a slider takes its current value before its default
getDefaultValueValueFirst(item) ==
    IF item.type = "text"
    THEN <<StrValue(
            IF HasFirstButton(item)
                    /\ "defaultParameter" \in DOMAIN item.buttons[1]
            THEN item.buttons[1].defaultParameter
            ELSE IF HasFirstButton(item) /\ "text" \in DOMAIN item.buttons[1]
                 THEN item.buttons[1].text
            ELSE "")>>
    ELSE IF item.type = "button"
    THEN <<BoolValue(IF "defaultParameter" \in DOMAIN item
                     THEN item.defaultParameter ELSE TRUE)>>
    ELSE IF item.type = "slider"
    THEN <<NumValue(IF "value" \in DOMAIN item THEN item.value
                    ELSE IF "defaultParameter" \in DOMAIN item
                         THEN item.defaultParameter
                    ELSE IF "min" \in DOMAIN item THEN item.min
                    ELSE 0)>>
    ELSE IF item.type = "color_picker"
    THEN <<StrValue(IF "defaultParameter" \in DOMAIN item
                    THEN item.defaultParameter ELSE "#ffffff")>>
    ELSE IF item.type = "select"
    THEN <<StrValue(IF "defaultParameter" \in DOMAIN item
                    THEN item.defaultParameter ELSE "")>>
    ELSE IF item.type = "file_picker"
    THEN <<StrValue("")>>
    ELSE <<>>

\* the value, as <<v>>, or <<>> for undefined
getDefaultValue(item) ==
    IF item.type = "text"
    THEN <<StrValue(
            IF HasFirstButton(item)
                    /\ "defaultParameter" \in DOMAIN item.buttons[1]
            THEN item.buttons[1].defaultParameter
            ELSE IF HasFirstButton(item) /\ "text" \in DOMAIN item.buttons[1]
                 THEN item.buttons[1].text
            ELSE "")>>
    ELSE IF item.type = "button"
    THEN <<BoolValue(IF "defaultParameter" \in DOMAIN item
                     THEN item.defaultParameter ELSE TRUE)>>
    ELSE IF item.type = "slider"
    THEN <<NumValue(IF "defaultParameter" \in DOMAIN item
                    THEN item.defaultParameter
                    ELSE IF "value" \in DOMAIN item THEN item.value
                    ELSE IF "min" \in DOMAIN item THEN item.min
                    ELSE 0)>>
    ELSE IF item.type = "color_picker"
    THEN <<StrValue(IF "defaultParameter" \in DOMAIN item
                    THEN item.defaultParameter ELSE "#ffffff")>>
    ELSE IF item.type = "select"
    THEN <<StrValue(IF "defaultParameter" \in DOMAIN item
                    THEN item.defaultParameter ELSE "")>>
    ELSE IF item.type = "file_picker"
    THEN <<StrValue("")>>
    ELSE <<>>

\* { ...values, [id]: v }
PutValue(values, id, v) ==
    [k \in (DOMAIN values) \cup {id} |-> IF k = id THEN v ELSE values[k]]

RECURSIVE SeedItems(_, _, _)
\* sec.items.forEach(item => { ... initial[item.id] = v }) from index k on
SeedItems(items, k, initial) ==
    IF k > Len(items) THEN initial
    ELSE LET v == getDefaultValue(items[k])
         IN  SeedItems(items, k + 1,
                       IF v # <<>> THEN PutValue(initial, items[k].id, v[1])
                       ELSE initial)

RECURSIVE SeedSections(_, _, _)
\* schema.sections.forEach(sec => ...) from index k on
SeedSections(sections, k, initial) ==
    IF k > Len(sections) THEN initial
    ELSE SeedSections(sections, k + 1,
                      SeedItems(sections[k].items, 1, initial))

\* the initializer of useState: the defaults of all items of the schema
InitialValues(s) == SeedSections(s.sections, 1, <<>>)

\* values = controlledValues ?? internalValues
CurrentValues ==
    IF controlledValues # <<>> THEN controlledValues[1] ELSE internalValues

(***************************************************************************)
(* Mounting AddonSettingsAccordion on a schema of the pool                 *)
(***************************************************************************)
\* the id of the k-th item of a schema of the pool: "opt_1", "opt_2", ...
SettingsItemId(k) == <<"opt_">> \o NumberToString(k)

TextButtons(id) ==
    {<<[id |-> id]>>, <<[id |-> id, text |-> "t"]>>,
     <<[id |-> id, text |-> "t", defaultParameter |-> "d"]>>,
     <<[id |-> id, defaultParameter |-> "d"], [id |-> id, text |-> "u"]>>}

\* the items with the given id: every type, with and without the fields
\* that getDefaultValue reads
SettingsItems(id) ==
    {[id |-> id, name |-> "n", type |-> "text"]}
    \cup {[id |-> id, name |-> "n", type |-> "text", buttons |-> b] :
            b \in TextButtons(id)}
    \cup {[id |-> id, name |-> "n", type |-> "button"],
          [id |-> id, name |-> "n", type |-> "button",
           defaultParameter |-> FALSE]}
    \cup {[id |-> id, name |-> "n", type |-> "slider"],
          [id |-> id, name |-> "n", type |-> "slider", min |-> 1],
          [id |-> id, name |-> "n", type |-> "slider", min |-> 1, value |-> 2],
          [id |-> id, name |-> "n", type |-> "slider", min |-> 1, value |-> 2,
           defaultParameter |-> 3]}
    \cup {[id |-> id, name |-> "n", type |-> "color_picker"],
          [id |-> id, name |-> "n", type |-> "color_picker",
           defaultParameter |-> "#000000"]}
    \cup {[id |-> id, name |-> "n", type |-> "select"],
          [id |-> id, name |-> "n", type |-> "select",
           defaultParameter |-> "x"]}
    \cup {[id |-> id, name |-> "n", type |-> "file_picker"],
          [id |-> id, name |-> "n", type |-> "custom"]}

\* the lists of at most n items, the k-th item with the k-th id
SettingsItemLists(n) ==
    UNION {{f \in [1..k -> UNION {SettingsItems(SettingsItemId(i)) : i \in 1..k}] :
                \A i \in 1..k : f[i].id = SettingsItemId(i)} : k \in 0..n}

\* the schemas of one section, or of two sections cut behind the first item
SettingsSchemasOf(lists) ==
    {[sections |-> <<[title |-> "A", items |-> f]>>] : f \in lists}
    \cup {[sections |-> <<[title |-> "A", items |-> SubSeq(f, 1, 1)],
                          [title |-> "B", items |-> SubSeq(f, 2, Len(f))]>>] :
            f \in {l \in lists : Len(l) >= 1}}

SeedSchemas == SettingsSchemasOf(SettingsItemLists(MaxItems))

\* the editor is not part of these specifications
NoEditor ==
    /\ previousGraph = <<>>
    /\ graph = EmptyGraph
    /\ clock = 0
    /\ steps = 0

InitSeed ==
    /\ NoEditor
    /\ IdleCanvas /\ IdleToasts /\ IdleModal /\ IdleAccordion
    /\ schema \in SeedSchemas
    /\ controlledValues \in {<<>>, << <<>> >>}
    /\ internalValues = <<>>
    /\ op = [name |-> "props"]

\* the first render: useState runs its initializer
Mount ==
    /\ op.name = "props"
    /\ internalValues' = InitialValues(schema)
    /\ op' = [name |-> "mount"]
    /\ UNCHANGED <<schema, previousGraph, graph, clock, steps,
                   controlledValues, canvasVars, toastVars, modalVars,
                   accordionVars>>

NextSeed == Mount

SpecSeed == InitSeed /\ [][NextSeed]_vars

(***************************************************************************)
(* Properties of AddonSettingsAccordion                                    *)
(***************************************************************************)
RECURSIVE FlatItems(_, _)
\* the items of the sections from index k on, in document order
FlatItems(sections, k) ==
    IF k > Len(sections) THEN <<>>
    ELSE sections[k].items \o FlatItems(sections, k + 1)

SchemaItems == FlatItems(schema.sections, 1)

RecognisedTypes ==
    {"text", "button", "slider", "color_picker", "select", "file_picker"}

\* the field f of record r, or the value d when r has no such field
FieldOr(r, f, d) == IF f \in DOMAIN r THEN r[f] ELSE d

\* the text of the claim, type by type; a slider without min has the
\* minimum 0 (every reader of min in the component takes min ?? 0)
SeedOf(item) ==
    CASE item.type = "text" ->
            StrValue(IF HasFirstButton(item)
                     THEN FieldOr(item.buttons[1], "defaultParameter",
                                  FieldOr(item.buttons[1], "text", ""))
                     ELSE "")
      [] item.type = "button" -> BoolValue(FieldOr(item, "defaultParameter", TRUE))
      [] item.type = "slider" ->
            NumValue(FieldOr(item, "defaultParameter",
                             FieldOr(item, "value", FieldOr(item, "min", 0))))
      [] item.type = "color_picker" ->
            StrValue(FieldOr(item, "defaultParameter", "#ffffff"))
      [] item.type = "select" -> StrValue(FieldOr(item, "defaultParameter", ""))
      [] item.type = "file_picker" -> StrValue("")

Mounted == op.name = "mount"

\* C22: in uncontrolled mode the values map after the first render has one
\* entry for every item of a recognised type, the default of its type (text:
\* the first button's defaultParameter, else its text, else ""; button:
\* defaultParameter, else true; slider: defaultParameter, else value, else
\* min; color_picker: defaultParameter, else "#ffffff"; select:
\* defaultParameter, else ""; file_picker: ""), and no entry for an item of
\* another type.
C22_SeedsDefaultsByType ==
    (Mounted /\ controlledValues = <<>>) =>
        /\ DOMAIN CurrentValues =
                {SchemaItems[i].id :
                    i \in {j \in 1..Len(SchemaItems) :
                                SchemaItems[j].type \in RecognisedTypes}}
        /\ \A i \in 1..Len(SchemaItems) :
                SchemaItems[i].type \in RecognisedTypes =>
                    CurrentValues[SchemaItems[i].id] = SeedOf(SchemaItems[i])

\* mounted uncontrolled on a schema of two sections with a slider that has a
\* value and a default, and an item of an unrecognised type
C22_Witness ==
    /\ Mounted /\ controlledValues = <<>>
    /\ Len(schema.sections) = 2
    /\ \E i \in 1..Len(SchemaItems) :
            /\ SchemaItems[i].type = "slider"
            /\ {"value", "defaultParameter"} \subseteq DOMAIN SchemaItems[i]
            /\ CurrentValues[SchemaItems[i].id] = NumValue(3)
    /\ \E i \in 1..Len(SchemaItems) :
            /\ SchemaItems[i].type = "custom"
            /\ SchemaItems[i].id \notin DOMAIN CurrentValues

(***************************************************************************)
(* Editing values in AddonSettingsAccordion.  The host of a controlled     *)
(* accordion holds the values; it may commit the map it was handed before  *)
(* the next edit, or not.  op.last is the map last passed to onChange (as  *)
(* <<map>>), op.edited the latest edited value of every edited id, and     *)
(* op.hostKeptUp tells that every edit so far started from the map the     *)
(* host was handed last.                                                   *)
(***************************************************************************)
\* mutant: the map handed on holds the edited key only
handleItemChangeOnlyId(values, id, v) == PutValue(<<>>, id, v)

\* the map handed to setValues: { ...values, [id]: v }
handleItemChange(values, id, v) == PutValue(values, id, v)

\* the values a row of the item can report
EditValuesOf(item) ==
    IF item.type = "button" THEN {BoolValue(TRUE), BoolValue(FALSE)}
    ELSE IF item.type = "slider" THEN {NumValue(4), NumValue(5)}
    ELSE {StrValue("e"), StrValue("f")}

EditedItems(id) ==
    {[id |-> id, name |-> "n", type |-> "button"],
     [id |-> id, name |-> "n", type |-> "slider", min |-> 1]}

EditSchemas ==
    SettingsSchemasOf(
        {f \in [1..2 -> EditedItems(SettingsItemId(1))
                            \cup EditedItems(SettingsItemId(2))] :
            \A i \in 1..2 : f[i].id = SettingsItemId(i)})

InitSettings ==
    /\ NoEditor
    /\ IdleCanvas /\ IdleToasts /\ IdleModal /\ IdleAccordion
    /\ schema \in EditSchemas
    /\ internalValues = InitialValues(schema)
    /\ controlledValues \in {<<>>, << <<>> >>, <<InitialValues(schema)>>}
    /\ op = [name |-> "render", last |-> <<>>, edited |-> <<>>,
             hostKeptUp |-> TRUE]

\* a row reports the value v of item id: handleItemChange, then setValues
HandleItemChange ==
    /\ Step
    /\ \E i \in 1..Len(FlatItems(schema.sections, 1)) :
        \E v \in EditValuesOf(FlatItems(schema.sections, 1)[i]) :
            LET id == FlatItems(schema.sections, 1)[i].id
                next == handleItemChange(CurrentValues, id, v)
            IN  /\ internalValues' =
                        IF controlledValues = <<>> THEN next
                        ELSE internalValues
                /\ op' = [name |-> "handleItemChange", id |-> id, v |-> v,
                          before |-> CurrentValues,
                          internalBefore |-> internalValues,
                          emitted |-> <<next>>,
                          last |-> <<next>>,
                          edited |-> PutValue(op.edited, id, v),
                          hostKeptUp |->
                                /\ op.hostKeptUp
                                /\ \/ controlledValues = <<>>
                                   \/ op.last = <<>>
                                   \/ controlledValues = op.last]
    /\ UNCHANGED <<schema, previousGraph, graph, clock, controlledValues,
                   canvasVars, toastVars, modalVars, accordionVars>>

\* the host of a controlled accordion passes the map it was handed last as
\* the values prop
HostCommitsValues ==
    /\ controlledValues # <<>>
    /\ op.last # <<>>
    /\ controlledValues # op.last
    /\ controlledValues' = op.last
    /\ op' = [name |-> "values", last |-> op.last, edited |-> op.edited,
              hostKeptUp |-> op.hostKeptUp]
    /\ UNCHANGED <<schema, previousGraph, graph, clock, steps,
                   internalValues, canvasVars, toastVars, modalVars,
                   accordionVars>>

NextSettings == HandleItemChange \/ HostCommitsValues

SpecSettings == InitSettings /\ [][NextSettings]_vars

ItemEdited == op.name = "handleItemChange"

\* the call handed on one map: the values before with id mapped to v
OneFullMapEmitted ==
    /\ Len(op.emitted) = 1
    /\ DOMAIN op.emitted[1] = (DOMAIN op.before) \cup {op.id}
    /\ op.emitted[1][op.id] = op.v
    /\ \A k \in (DOMAIN op.before) \ {op.id} :
            op.emitted[1][k] = op.before[k]

\* uncontrolled: the internal map is the map handed on; controlled: it is
\* the internal map of before
InternalMapFollowsMode ==
    IF controlledValues = <<>> THEN internalValues = op.emitted[1]
    ELSE internalValues = op.internalBefore

\* the map last passed to onChange has the latest value of every edited id
LastMapHasLatestEdits ==
    \A id \in DOMAIN op.edited :
        /\ id \in DOMAIN op.last[1]
        /\ op.last[1][id] = op.edited[id]

\* C23 (as amended): every edit (id, v) passes one map to onChange, the
\* current values with id mapped to v and every other key unchanged; the
\* internal map becomes that map in uncontrolled mode and is not modified in
\* controlled mode.  The map last passed to onChange holds the latest edited
\* value of every edited id when the accordion is uncontrolled, or when the
\* host committed each map it was handed before the next edit.
C23_EditEmitsFullMapHostKeepingUp ==
    ItemEdited =>
        /\ OneFullMapEmitted
        /\ InternalMapFollowsMode
        /\ op.hostKeptUp => LastMapHasLatestEdits

\* two edits of different ids, uncontrolled or with the host committing in
\* between: the last map has both
C23_Witness ==
    /\ ItemEdited
    /\ op.hostKeptUp
    /\ Cardinality(DOMAIN op.edited) = 2
    /\ controlledValues # <<>>
    /\ op.before # InitialValues(schema)
    /\ LastMapHasLatestEdits

\* C23 (as stated): ... after any sequence of edits the map last passed to
\* onChange holds the latest edited value of every edited id.
C23_EditEmitsFullMapAlways ==
    ItemEdited =>
        /\ OneFullMapEmitted
        /\ InternalMapFollowsMode
        /\ LastMapHasLatestEdits

(***************************************************************************)
(* VisualBlueprintEditorInner (VisualBlueprintEditor.tsx): the React Flow  *)
(* view of the graph prop.  A handler captures the graph of the render it  *)
(* was made in; the effect on [graph] runs when the host passes a new      *)
(* graph.  The constant fields of an edge (handles, style) are left out.   *)
(***************************************************************************)
\* itemCountBySection.get(id) ?? 0
ItemsCount(g, id) ==
    Cardinality({i \in 1..Len(g.nodes) :
                    /\ IsItem(g.nodes[i])
                    /\ g.nodes[i].sectionId # <<>>
                    /\ g.nodes[i].sectionId = id})

graphToFlowNodes(g) ==
    [i \in 1..Len(g.nodes) |->
        IF g.nodes[i].type = "section"
        THEN [id |-> g.nodes[i].id, type |-> "section",
              position |-> g.nodes[i].position,
              data |-> [title |-> g.nodes[i].title,
                        itemsCount |-> ItemsCount(g, g.nodes[i].id)]]
        ELSE [id |-> g.nodes[i].id, type |-> "item",
              position |-> g.nodes[i].position,
              data |-> [sectionId |-> g.nodes[i].sectionId,
                        item |-> g.nodes[i].item]]]

\* .filter(n => n.sectionId)
HasSectionId(n) == n.sectionId # <<>>

graphToFlowEdges(g) ==
    LET attached == SelectSeq(getItemNodes(g), HasSectionId)
    IN  [i \in 1..Len(attached) |->
            [id |-> <<"edge-">> \o attached[i].sectionId \o <<"-">>
                        \o attached[i].id,
             source |-> attached[i].sectionId,
             target |-> attached[i].id]]

\* the effect on [graph], run with the flag and the view the handler left:
\* it clears the flag and, unless the flag was set, resets the view
GraphEffect(newGraph, flag, viewNodes, viewEdges) ==
    /\ graph' = newGraph
    /\ selfUpdate' = FALSE
    /\ flowNodes' = IF flag THEN viewNodes ELSE graphToFlowNodes(newGraph)
    /\ flowEdges' = IF flag THEN viewEdges ELSE graphToFlowEdges(newGraph)

\* the host keeps the graph prop: no effect runs
NoGraphEffect(flag, viewNodes, viewEdges) ==
    /\ graph' = graph
    /\ selfUpdate' = flag
    /\ flowNodes' = viewNodes
    /\ flowEdges' = viewEdges

\* new Map(allNodes.map(n => [n.id, n.position])).get(id), as <<pos>> or
\* <<>>: the position of the last node with this id
PosMapGet(allNodes, id) ==
    LET hits == {i \in 1..Len(allNodes) : allNodes[i].id = id}
    IN  IF hits = {} THEN <<>>
        ELSE <<allNodes[CHOOSE i \in hits : \A j \in hits : j <= i].position>>

\* the graph onNodeDragStop hands to onChange
DragStopGraph(g, allNodes) ==
    [nodes |-> [i \in 1..Len(g.nodes) |->
        IF PosMapGet(allNodes, g.nodes[i].id) # <<>>
        THEN [g.nodes[i] EXCEPT
                !.position = PosMapGet(allNodes, g.nodes[i].id)[1]]
        ELSE g.nodes[i]]]

RECURSIVE DetachEach(_, _, _)
\* for (const edge of deletedEdges) detachItemById(edge.target): the graphs
\* handed to onChange, every call with the graph of the same render
DetachEach(g, deletedEdges, k) ==
    IF k > Len(deletedEdges) THEN <<>>
    ELSE detachItemById(g, deletedEdges[k].target)
            \o DetachEach(g, deletedEdges, k + 1)

\* the schemas the canvas is opened on
CanvasSchemas ==
    {[sections |-> <<[title |-> "A", items |-> <<>>]>>],
     [sections |-> <<[title |-> "A",
                      items |-> <<ButtonItem(<<"a">>), ButtonItem(<<"b">>)>>]>>],
     [sections |-> LayoutSections]}

CanvasGraphs == {schemaToBlueprintGraph(s, <<>>) : s \in CanvasSchemas}

\* where a node is dropped
DragPositions == {Pos(40, 40)}

InitCanvas ==
    /\ IdleSettings /\ IdleToasts /\ IdleModal /\ IdleAccordion
    /\ schema = EmptySchema
    /\ previousGraph = <<>>
    /\ clock = 0
    /\ steps = 0
    /\ graph \in CanvasGraphs
    /\ flowNodes = graphToFlowNodes(graph)
    /\ flowEdges = graphToFlowEdges(graph)
    /\ selfUpdate = FALSE
    /\ op = [name |-> "render", committed |-> FALSE]

CanvasUnchanged ==
    UNCHANGED <<schema, previousGraph, clock, settingsVars, toastVars,
                modalVars, accordionVars>>

\* the user drops node i at p (React Flow has moved it in the view); the
\* host commits the graph it is handed, or keeps its own
OnNodeDragStop ==
    /\ Step
    /\ \E i \in 1..Len(flowNodes), p \in DragPositions, commits \in BOOLEAN :
        LET allNodes == [flowNodes EXCEPT ![i].position = p]
            emitted == DragStopGraph(graph, allNodes)
        IN  /\ flowNodes[i].position # p
            /\ IF commits
               THEN GraphEffect(emitted, TRUE, allNodes, flowEdges)
               ELSE NoGraphEffect(TRUE, allNodes, flowEdges)
            /\ op' = [name |-> "onNodeDragStop", committed |-> commits,
                      emitted |-> <<emitted>>, before |-> graph]
    /\ CanvasUnchanged

\* the toolbar button "+ Section"; the host commits
AddSection ==
    /\ Step
    /\ LET n == Len(getSectionNodes(graph))
           emitted == addSectionAt(graph, Pos(200, 100 + n * 200))
       IN  /\ GraphEffect(emitted[1], selfUpdate, flowNodes, flowEdges)
           /\ op' = [name |-> "addSection", committed |-> TRUE,
                     emitted |-> emitted, before |-> graph]
    /\ CanvasUnchanged

\* the user draws an edge from a section of the view to an item of the
\* view; the host commits
OnConnect ==
    /\ Step
    /\ \E i \in 1..Len(flowNodes), j \in 1..Len(flowNodes) :
        LET emitted == attachItemToSection(graph, flowNodes[i].id,
                                           flowNodes[j].id)
        IN  /\ flowNodes[i].type = "section"
            /\ flowNodes[j].type = "item"
            /\ GraphEffect(emitted[1], selfUpdate, flowNodes, flowEdges)
            /\ op' = [name |-> "onConnect", committed |-> TRUE,
                      emitted |-> emitted, before |-> graph]
    /\ CanvasUnchanged

\* the user deletes the edges at the indexes picked (React Flow has taken
\* them out of the view); the host commits each graph it is handed, the
\* last one staying, or keeps its own
OnEdgesDelete ==
    /\ Step
    /\ \E picked \in (SUBSET (1..Len(flowEdges))) \ {{}}, commits \in BOOLEAN :
        LET Picked(i) == i \in picked
            Kept(i) == i \notin picked
            indexes == [i \in 1..Len(flowEdges) |-> i]
            deletedEdges == [k \in 1..Len(SelectSeq(indexes, Picked)) |->
                                flowEdges[SelectSeq(indexes, Picked)[k]]]
            viewEdges == [k \in 1..Len(SelectSeq(indexes, Kept)) |->
                                flowEdges[SelectSeq(indexes, Kept)[k]]]
            emitted == DetachEach(graph, deletedEdges, 1)
        IN  /\ IF commits
               THEN GraphEffect(emitted[Len(emitted)], selfUpdate, flowNodes,
                                viewEdges)
               ELSE NoGraphEffect(selfUpdate, flowNodes, viewEdges)
            /\ op' = [name |-> "onEdgesDelete", committed |-> commits,
                      emitted |-> emitted, before |-> graph,
                      deletedEdges |-> deletedEdges]
    /\ CanvasUnchanged

\* the host passes another graph (it loaded another document)
HostSetsGraph ==
    /\ Step
    /\ \E g \in CanvasGraphs :
        /\ g # graph
        /\ GraphEffect(g, selfUpdate, flowNodes, flowEdges)
        /\ op' = [name |-> "graph", committed |-> TRUE, emitted |-> <<>>,
                  before |-> graph]
    /\ CanvasUnchanged

NextCanvas ==
    \/ OnNodeDragStop
    \/ AddSection
    \/ OnConnect
    \/ OnEdgesDelete
    \/ HostSetsGraph

SpecCanvas == InitCanvas /\ [][NextCanvas]_vars

(***************************************************************************)
(* Properties of the canvas (checked under SpecCanvas)                     *)
(***************************************************************************)
\* the graph prop has changed, and not by the commit of a drag-stop
GraphChangedNotByDrag ==
    /\ op.name \in {"addSection", "onConnect", "onEdgesDelete", "graph"}
    /\ op.committed

ViewIsOfGraph ==
    /\ flowNodes = graphToFlowNodes(graph)
    /\ flowEdges = graphToFlowEdges(graph)

\* C24: whenever the graph prop has changed for a reason other than the
\* commit of the editor's own drag-stop, the flow nodes and edges are
\* graphToFlowNodes(graph) and graphToFlowEdges(graph), also when an earlier
\* drag-stop was not committed by the host.
C24_ViewResyncsOnGraphChange == GraphChangedNotByDrag => ViewIsOfGraph

\* every item node named by a deleted edge is detached in the graph
DeletedTargetsDetached ==
    \A k \in 1..Len(op.deletedEdges) :
        \A i \in 1..Len(graph.nodes) :
            (IsItem(graph.nodes[i])
                    /\ graph.nodes[i].id = op.deletedEdges[k].target)
                => graph.nodes[i].sectionId = <<>>

\* C25: after one onEdgesDelete call with k >= 1 edges whose graphs the host
\* committed, the target item node of every deleted edge is detached in the
\* graph the host holds.
C25_EveryDeletedEdgeDetaches ==
    (op.name = "onEdgesDelete" /\ op.committed) => DeletedTargetsDetached

(***************************************************************************)
(* Pagination: getPageNumbers.  An entry of the list is a page number or   *)
(* the ellipsis.                                                           *)
(***************************************************************************)
PageEntry(n) == [kind |-> "page", page |-> n]

Ellipsis == [kind |-> "ellipsis", page |-> 0]

\* for (let i = from; i <= to; i++) pages.push(i)
PageRange(from, to) ==
    IF from > to THEN <<>>
    ELSE [i \in 1..(to - from + 1) |-> PageEntry(from + i - 1)]

Max2(a, b) == IF a >= b THEN a ELSE b

Min2(a, b) == IF a <= b THEN a ELSE b

getPageNumbers(current, total, max) ==
    IF total <= max THEN PageRange(1, total)
    ELSE LET sideWidth == (max - 3) \div 2
             leftBound == Max2(2, current - sideWidth)
             rightBound == Min2(total - 1, current + sideWidth)
         IN  <<PageEntry(1)>>
               \o (IF leftBound > 2 THEN <<Ellipsis>> ELSE <<>>)
               \o PageRange(leftBound, rightBound)
               \o (IF rightBound < total - 1 THEN <<Ellipsis>> ELSE <<>>)
               \o (IF total > 1 THEN <<PageEntry(total)>> ELSE <<>>)

\* the largest number of pages and the largest maxButtons tried
MaxPages == 6
MaxButtons == 8

\* the idle values of the variables of the components
NoComponents ==
    /\ NoEditor
    /\ schema = EmptySchema
    /\ InitUi

InitPages ==
    /\ NoComponents
    /\ \E total \in 1..MaxPages, maxButtons \in 1..MaxButtons :
        \E current \in 1..total :
            op = [name |-> "props", current |-> current, total |-> total,
                  max |-> maxButtons]

\* Pagination renders: useMemo calls getPageNumbers
GetPageNumbers ==
    /\ op.name = "props"
    /\ op' = [name |-> "getPageNumbers", current |-> op.current,
              total |-> op.total, max |-> op.max,
              pages |-> getPageNumbers(op.current, op.total, op.max)]
    /\ UNCHANGED <<schema, previousGraph, graph, clock, steps, uiVars>>

NextPages == GetPageNumbers

SpecPages == InitPages /\ [][NextPages]_vars

IsPageNumber(e) == e.kind = "page"

\* C26: for every total >= 1, 1 <= current <= total and maxButtons >= 1 the
\* list getPageNumbers(current, total, maxButtons) has at most maxButtons
\* page numbers, the ellipsis entries not counted.
C26_AtMostMaxButtonsNumbers ==
    op.name = "getPageNumbers" =>
        Len(SelectSeq(op.pages, IsPageNumber)) <= op.max

(***************************************************************************)
(* ToastProvider (components/TitleText/index.tsx).  timers holds the       *)
(* callbacks scheduled with requestAnimationFrame ("frame") and setTimeout *)
(* ("autoDismiss",                                                         *)
(* "remove"), each with the time it is due; clock is the time in ms.  A    *)
(* callback runs when no other one is due earlier.  Two callbacks of one   *)
(* kind for one toast due at one time count once: running the second one   *)
(* changes nothing.  A toast is written with the fields the provider       *)
(* reads: id, duration, state.                                             *)
(***************************************************************************)
\* duration ?? 5000
DefaultDuration == 5000

\* the delay of the removal in dismiss
RemovalDelay == 500

\* the time to the next animation frame
FrameDelay == 16

\* the duration of a toast that stays: later than every time of the model
Infinity == 1000000

\* `ps-toast-${++idCounter}`
ToastId(n) == <<"ps-toast-">> \o NumberToString(n)

\* prev.map(t => (t.id === id ? { ...t, state } : t))
WithState(list, id, state) ==
    [i \in 1..Len(list) |->
        IF list[i].id = id THEN [list[i] EXCEPT !.state = state] ELSE list[i]]

\* prev.filter(t => t.id !== id)
WithoutToast(list, id) ==
    LET Other(t) == t.id # id IN SelectSeq(list, Other)

Timer(kind, id, due) == [kind |-> kind, id |-> id, due |-> due]

\* the most toasts added, and the durations passed to add
MaxToasts == 2

Durations == {<<>>, <<0>>, <<Infinity>>}

InitToasts ==
    /\ NoEditor
    /\ schema = EmptySchema
    /\ IdleSettings /\ IdleCanvas /\ IdleModal /\ IdleAccordion
    /\ toasts = <<>>
    /\ timers = {}
    /\ idCounter = 0
    /\ op = [name |-> "render"]

ToastsUnchanged ==
    UNCHANGED <<schema, previousGraph, graph, settingsVars, canvasVars,
                modalVars, accordionVars>>

\* add({ type, title, message, duration }); duration is <<>> when left out
Add ==
    /\ idCounter < MaxToasts
    /\ \E duration \in Durations :
        LET id == ToastId(idCounter + 1)
            d == IF duration = <<>> THEN DefaultDuration ELSE duration[1]
        IN  /\ idCounter' = idCounter + 1
            /\ toasts' = Append(toasts, [id |-> id, duration |-> d,
                                         state |-> "entering"])
            /\ timers' = timers
                    \cup {Timer("frame", id, clock + FrameDelay)}
                    \cup (IF d # Infinity
                          THEN {Timer("autoDismiss", id, clock + d)}
                          ELSE {})
            /\ op' = [name |-> "add", id |-> id]
    /\ UNCHANGED <<clock, steps>>
    /\ ToastsUnchanged

\* the user clicks the dismiss button of a toast, or the application calls
\* dismiss with an id that add returned
Dismiss ==
    /\ Step
    /\ \E n \in 1..idCounter :
        /\ toasts' = WithState(toasts, ToastId(n), "exiting")
        /\ timers' = timers
                \cup {Timer("remove", ToastId(n), clock + RemovalDelay)}
        /\ op' = [name |-> "dismiss", id |-> ToastId(n)]
    /\ UNCHANGED <<clock, idCounter>>
    /\ ToastsUnchanged

\* no other callback is due before t
Due(t) == t \in timers /\ \A u \in timers : t.due <= u.due

\* the callback of requestAnimationFrame runs
FrameFires ==
    /\ \E t \in timers :
        /\ Due(t) /\ t.kind = "frame"
        /\ clock' = t.due
        /\ toasts' = WithState(toasts, t.id, "visible")
        /\ timers' = timers \ {t}
        /\ op' = [name |-> "frame", id |-> t.id]
    /\ UNCHANGED <<steps, idCounter>>
    /\ ToastsUnchanged

\* the auto-dismiss timeout runs: dismiss(id)
AutoDismissFires ==
    /\ \E t \in timers :
        /\ Due(t) /\ t.kind = "autoDismiss"
        /\ clock' = t.due
        /\ toasts' = WithState(toasts, t.id, "exiting")
        /\ timers' = (timers \ {t})
                \cup {Timer("remove", t.id, t.due + RemovalDelay)}
        /\ op' = [name |-> "autoDismiss", id |-> t.id]
    /\ UNCHANGED <<steps, idCounter>>
    /\ ToastsUnchanged

\* the timeout set by dismiss runs
RemoveFires ==
    /\ \E t \in timers :
        /\ Due(t) /\ t.kind = "remove"
        /\ clock' = t.due
        /\ toasts' = WithoutToast(toasts, t.id)
        /\ timers' = timers \ {t}
        /\ op' = [name |-> "remove", id |-> t.id]
    /\ UNCHANGED <<steps, idCounter>>
    /\ ToastsUnchanged

NextToasts ==
    \/ Add
    \/ Dismiss
    \/ FrameFires
    \/ AutoDismissFires
    \/ RemoveFires

SpecToasts == InitToasts /\ [][NextToasts]_vars

\* a toast that is exiting is exiting or gone after the step
ExitingStaysExiting ==
    \A i \in 1..Len(toasts) :
        toasts[i].state = "exiting" =>
            \A j \in 1..Len(toasts') :
                toasts'[j].id = toasts[i].id => toasts'[j].state = "exiting"

\* the removal of every exiting toast is scheduled, at most 500 ms ahead
ExitingIsRemoved ==
    \A i \in 1..Len(toasts) :
        toasts[i].state = "exiting" =>
            \E t \in timers :
                /\ t.kind = "remove" /\ t.id = toasts[i].id
                /\ t.due <= clock + RemovalDelay

\* C27: once dismiss(id) has put a toast into 'exiting', no later callback
\* puts it back into 'visible' or 'entering', and its removal from the list
\* is due 500 ms after the dismiss.
C27_ToastStateOnlyForward ==
    [][ExitingStaysExiting]_vars /\ []ExitingIsRemoved

(***************************************************************************)
(* useConfirmModal (ConfirmModal/index.tsx) and usePromptModal.  The       *)
(* promises returned by confirm()/prompt() are numbered in the order of    *)
(* the calls; promises[i] is <<>> while promise i is pending and <<v>>     *)
(* once it is resolved with v.  modalState is <<>> for null, else <<i>>:   *)
(* the request whose resolve function the state holds.  op.confirmed is    *)
(* the set of requests that were shown when the user confirmed.            *)
(***************************************************************************)
\* the value null
NullValue == [kind |-> "null", bool |-> FALSE, num |-> 0, str |-> ""]

\* resolve(v) of promise i: a promise keeps its first value
Resolve(ps, i, v) == IF ps[i] = <<>> THEN [ps EXCEPT ![i] = <<v>>] ELSE ps

\* what an earlier request is resolved with when a new one replaces it, and
\* what onCancel passes to close
Cancelled(h) == IF h = "useConfirmModal" THEN BoolValue(FALSE) ELSE NullValue

\* what onConfirm passes to close
ConfirmValues(h) ==
    IF h = "useConfirmModal" THEN {BoolValue(TRUE)}
    ELSE {StrValue(""), StrValue("x")}

\* mutant: a new request leaves the earlier promise pending
confirmKeepingEarlier(state, ps, h) == Append(ps, <<>>)

\* the promises after confirm(options) / prompt(options): the updater
\* resolves the request that state holds and a new promise is made
confirm(state, ps, h) ==
    Append(IF state # <<>> THEN Resolve(ps, state[1], Cancelled(h)) ELSE ps,
           <<>>)

\* the promises after close(result)
close(state, ps, result) ==
    IF state # <<>> THEN Resolve(ps, state[1], result) ELSE ps

\* the most calls of confirm()/prompt()
MaxRequests == 3

InitModal ==
    /\ NoEditor
    /\ schema = EmptySchema
    /\ IdleSettings /\ IdleCanvas /\ IdleToasts /\ IdleAccordion
    /\ hook \in {"useConfirmModal", "usePromptModal"}
    /\ modalState = <<>>
    /\ promises = <<>>
    /\ op = [name |-> "render", confirmed |-> {}]

ModalUnchanged ==
    UNCHANGED <<schema, previousGraph, graph, clock, hook, settingsVars,
                canvasVars, toastVars, accordionVars>>

\* the application calls confirm(options), alert(options) or prompt(options)
Confirm ==
    /\ Len(promises) < MaxRequests
    /\ promises' = confirm(modalState, promises, hook)
    /\ modalState' = <<Len(promises) + 1>>
    /\ op' = [name |-> "confirm", shown |-> modalState, before |-> promises,
              confirmed |-> op.confirmed]
    /\ UNCHANGED steps
    /\ ModalUnchanged

\* the user presses the confirm button (of the modal shown, or of a modal
\* that is closing): close(true) / close(value)
OnConfirm ==
    /\ Step
    /\ \E value \in ConfirmValues(hook) :
        /\ promises' = close(modalState, promises, value)
        /\ modalState' = <<>>
        /\ op' = [name |-> "onConfirm", shown |-> modalState,
                  before |-> promises, result |-> value,
                  confirmed |-> op.confirmed \cup
                        {modalState[i] : i \in 1..Len(modalState)}]
    /\ ModalUnchanged

\* the user cancels: close(false) / close(null)
OnCancel ==
    /\ Step
    /\ promises' = close(modalState, promises, Cancelled(hook))
    /\ modalState' = <<>>
    /\ op' = [name |-> "onCancel", shown |-> modalState, before |-> promises,
              result |-> Cancelled(hook), confirmed |-> op.confirmed]
    /\ ModalUnchanged

NextModal == Confirm \/ OnConfirm \/ OnCancel

SpecModal == InitModal /\ [][NextModal]_vars

\* only the request shown is pending
OnlyShownPending ==
    \A i \in 1..Len(promises) : promises[i] = <<>> => modalState = <<i>>

\* a new request is shown and the request it replaced is resolved with
\* false / null
NewRequestSupersedes ==
    op.name = "confirm" =>
        /\ modalState = <<Len(promises)>>
        /\ promises[Len(promises)] = <<>>
        /\ \A i \in 1..Len(op.before) :
                promises[i] = IF op.shown = <<i>> /\ op.before[i] = <<>>
                              THEN <<Cancelled(hook)>>
                              ELSE op.before[i]

\* the user's answer resolves the request shown with that answer, changes
\* no other promise and closes the modal
AnswerResolvesShown ==
    op.name \in {"onConfirm", "onCancel"} =>
        /\ modalState = <<>>
        /\ Len(promises) = Len(op.before)
        /\ \A i \in 1..Len(promises) :
                promises[i] = IF op.shown = <<i>> /\ op.before[i] = <<>>
                              THEN <<op.result>>
                              ELSE op.before[i]

\* a promise has the value of a confirmation only when the user confirmed
\* while its request was shown
ConfirmedOnlyByUser ==
    \A i \in 1..Len(promises) :
        (promises[i] # <<>> /\ promises[i] # <<Cancelled(hook)>>)
            => i \in op.confirmed

\* C28: at most one request is pending, the one shown; confirm() while an
\* earlier request is pending resolves the earlier promise with false and
\* shows the new request; a user confirm or cancel resolves only the request
\* shown (true or false) and closes the modal; no promise resolves true
\* unless the user confirmed while its request was shown.  usePromptModal:
\* the same with null for cancel and supersede and the entered text for
\* confirm.
C28_OnePendingRequest ==
    /\ OnlyShownPending
    /\ NewRequestSupersedes
    /\ AnswerResolvesShown
    /\ ConfirmedOnlyByUser

\* a second confirm() replaced a pending request, which got false, and the
\* user confirmed the second one
C28_Witness ==
    /\ hook = "useConfirmModal"
    /\ op.name = "onConfirm"
    /\ Len(promises) = 2
    /\ promises[1] = <<BoolValue(FALSE)>>
    /\ promises[2] = <<BoolValue(TRUE)>>
    /\ op.confirmed = {2}

(***************************************************************************)
(* Accordion, uncontrolled: the set of open keys                           *)
(***************************************************************************)
\* compute(prev) of toggle(key)
compute(prev, key, mult) ==
    IF key \in prev THEN prev \ {key}
    ELSE (IF ~mult THEN {} ELSE prev) \cup {key}

\* the keys of the items
AccordionKeys == {"k1", "k2", "k3"}

\* useState(new Set(defaultOpen)) for every defaultOpen list of item keys
InitAccordion ==
    /\ NoEditor
    /\ schema = EmptySchema
    /\ IdleSettings /\ IdleCanvas /\ IdleToasts /\ IdleModal
    /\ multiple \in BOOLEAN
    /\ internalKeys \in SUBSET AccordionKeys
    /\ op = [name |-> "render"]

\* the user clicks the header of section key: setInternalKeys(compute)
Toggle ==
    /\ Step
    /\ \E key \in AccordionKeys :
        /\ internalKeys' = compute(internalKeys, key, multiple)
        /\ op' = [name |-> "toggle", key |-> key, before |-> internalKeys,
                  emitted |-> <<compute(internalKeys, key, multiple)>>]
    /\ UNCHANGED <<schema, previousGraph, graph, clock, multiple,
                   settingsVars, canvasVars, toastVars, modalVars>>

NextAccordion == Toggle

SpecAccordion == InitAccordion /\ [][NextAccordion]_vars

\* C29: in an uncontrolled Accordion with multiple=false at most one section
\* is open after any toggle, whatever defaultOpen was; with multiple=true a
\* toggle changes the open state of the toggled key only.
C29_SingleOpenUnlessMultiple ==
    op.name = "toggle" =>
        IF multiple
        THEN /\ (op.key \in internalKeys) # (op.key \in op.before)
             /\ internalKeys \ {op.key} = op.before \ {op.key}
        ELSE Cardinality(internalKeys) <= 1

(***************************************************************************)
(* AddonSettingsBlueprintEditor (the form-style editor): removeSection on  *)
(* the blueprint the host holds (schema); the host commits                 *)
(***************************************************************************)
\* createEmptySection(title = 'New Section'); title is <<>> when left out
createEmptySection(title) ==
    [title |-> IF title = <<>> THEN "New Section" ELSE title[1],
     items |-> <<>>]

\* blueprint.sections.filter((_, i) => i !== index), index counted from 0
SectionsWithout(sections, index) ==
    [k \in 1..(Len(sections) - (IF index + 1 \in 1..Len(sections) THEN 1 ELSE 0))
        |-> IF k < index + 1 THEN sections[k] ELSE sections[k + 1]]

\* mutant: the last section can be removed
removeSectionToEmpty(blueprint, index) ==
    [blueprint EXCEPT !.sections = SectionsWithout(blueprint.sections, index)]

\* the blueprint removeSection(index) hands to onChange
removeSection(blueprint, index) ==
    LET sections == SectionsWithout(blueprint.sections, index)
    IN  [blueprint EXCEPT
            !.sections = IF Len(sections) = 0
                         THEN <<createEmptySection(<<>>)>>
                         ELSE sections]

InitForm ==
    /\ InitUi
    /\ previousGraph = <<>>
    /\ graph = EmptyGraph
    /\ clock = 0
    /\ steps = 0
    /\ schema \in RichSchemas \cup LayoutSchemas
    /\ op = [name |-> "render"]

\* the user presses the remove button of the section at index
RemoveSection ==
    /\ Step
    /\ \E index \in 0..(Len(schema.sections) - 1) :
        /\ schema' = removeSection(schema, index)
        /\ op' = [name |-> "removeSection", index |-> index,
                  before |-> schema,
                  emitted |-> <<removeSection(schema, index)>>]
    /\ UNCHANGED <<previousGraph, graph, clock, uiVars>>

NextForm == RemoveSection

SpecForm == InitForm /\ [][NextForm]_vars

SectionRemoved == op.name = "removeSection"

\* C30: removeSection never emits a blueprint with zero sections: removing
\* the last remaining section yields exactly one empty section titled
\* 'New Section'; removing section i of more than one yields the other
\* sections unchanged and in the same order.
C30_RemoveSectionKeepsOneSection ==
    SectionRemoved =>
        /\ Len(op.emitted) = 1
        /\ Len(op.emitted[1].sections) >= 1
        /\ IF Len(op.before.sections) = 1
           THEN op.emitted[1].sections =
                    <<[title |-> "New Section", items |-> <<>>]>>
           ELSE /\ Len(op.emitted[1].sections) = Len(op.before.sections) - 1
                /\ \A k \in 1..Len(op.emitted[1].sections) :
                    op.emitted[1].sections[k] =
                        op.before.sections[IF k <= op.index THEN k ELSE k + 1]

\* after a section of two was removed, the remaining one, which has an
\* item, was removed too: the blueprint has the one empty section
C30_Witness ==
    /\ SectionRemoved
    /\ steps >= 2
    /\ Len(op.before.sections) = 1
    /\ Len(op.before.sections[1].items) >= 1
    /\ schema.sections = <<[title |-> "New Section", items |-> <<>>]>>

====
